---- MODULE Spec2Model ----
(***************************************************************************)
(* Rating and credit-accrual engine of the fax backend: the rate table     *)
(* lookup (services/fax/src/rates.js), fax submission (sendFax), the       *)
(* carrier webhooks (telnyxWebhook, notifyreWebhook), the status polling   *)
(* cron and the SQL-resident freemium provisioning.                        *)
(***************************************************************************)
EXTENDS Integers, Sequences, FiniteSets, TLC

VARIABLES
    now,                \* database clock NOW(), in days
    faxes,              \* table faxes, keyed by provider_fax_id
    usage,              \* table usage: the UsageRecords, in insertion order
    user_subscriptions, \* table user_subscriptions, in created_at order
    free_credits,       \* table free_credits, in created_at order
    webhook_events,     \* number of rows of the webhook audit table
    unlogged,           \* requests that leave no webhook_events row: polled
                        \* statuses and callbacks answered 400 or 500
    creditsAdded,       \* per fax: credits the webhooks logged as added to credits_used
    inv,                \* the handler invocations in flight (one per worker)
    response,           \* the response most recently returned by a handler
    args,               \* inputs of the function under evaluation
    ret,                \* its result
    users_credit_ledger, \* table users_credit_ledger, in id order
    LOOKUP_KV,          \* env.LOOKUP_KV: the KV namespace of number lookups
    cache,              \* caches.default: the Cache API store
    fetches,            \* the requests made to the number lookup API, in order
    rewarded_video_completions, \* table rewarded_video_completions, in id order
    referral_invites,   \* table referral_invites, in id order
    profiles            \* table profiles, in id order

vars == <<now, faxes, usage, user_subscriptions, free_credits, webhook_events, unlogged,
          creditsAdded, inv, response, args, ret, users_credit_ledger,
          LOOKUP_KV, cache, fetches, rewarded_video_completions,
          referral_invites, profiles>>

dbVars == <<now, faxes, usage, user_subscriptions, free_credits, webhook_events, unlogged,
            creditsAdded, inv, response, users_credit_ledger,
            LOOKUP_KV, cache, fetches, rewarded_video_completions,
            referral_invites, profiles>>

\* The tables of the referrals and of the account deletions.
jobVars == <<referral_invites, profiles>>

\* The stores of the number lookup and of the rewarded videos, and the
\* tables the fax handlers never touch.
edgeVars == <<LOOKUP_KV, cache, fetches, rewarded_video_completions, jobVars>>

(***************************************************************************)
(* Bounds of the model.                                                    *)
(***************************************************************************)
MaxDigitsLen == 2       \* longest freely chosen digit string
MaxTable == 2           \* most entries of a rate table
MaxRate == 2            \* rates are 1..MaxRate micro-USD per minute
MaxFaxes == 2           \* fax submissions that reach the carrier
MaxProcs == 2           \* handler invocations running at the same time
MaxCallbacks == 2       \* carrier callbacks received and statuses polled
MaxNow == 1             \* days the clock advances
MaxPages == 1           \* pages of one submission
PaidLimit == 1          \* credit_limit of a pre-existing paid subscription
SignupCredits == 1      \* credit_limit of a pre-existing signup grant
MaxSubscriptions == 2   \* subscription rows of a user before a database job
MaxSignups == 2         \* users that register
MaxProfiles == 2        \* profiles in the table
MaxQuotePages == 3      \* pages of a fax that is only quoted
MaxAmount == 4          \* largest p_amount of a consume call
MaxGrant == 2           \* largest p_amount of a grant or reset call
MaxLedger == 2          \* ledger rows and calls in flight beyond which no call begins
MaxChars == 4           \* longest freely chosen string of characters

(***************************************************************************)
(* JavaScript values.                                                      *)
(***************************************************************************)
Null == [null |-> TRUE]

Min(a, b) == IF a < b THEN a ELSE b

\* SQL NULL / JavaScript null in an integer column, and the JavaScript
\* numbers NaN and undefined, next to the integers.
NULL == -1

NaN == -2

undefined == -3

\* JavaScript a || b on nullable numbers: null, 0, NaN and undefined are falsy.
Or(a, b) == IF a # -1 /\ a # 0 /\ a # NaN /\ a # undefined THEN a ELSE b

\* Math.ceil on the credit amounts, which are integers (faxes.cost is an
\* INTEGER column, the quote is a product of integers) or, for a property
\* that is not there, undefined: Math.ceil(undefined) is NaN.
Ceil(x) == IF x = NaN \/ x = undefined THEN NaN ELSE x

\* JavaScript a * b: NaN when a factor is NaN.
Times(a, b) == IF a = NaN \/ b = NaN THEN NaN ELSE a * b

\* s < t on JavaScript strings of digits: code-unit lexicographic order.
RECURSIVE StrLess(_, _)
StrLess(s, t) ==
    IF t = <<>> THEN FALSE
    ELSE IF s = <<>> THEN TRUE
    ELSE IF Head(s) # Head(t) THEN Head(s) < Head(t)
    ELSE StrLess(Tail(s), Tail(t))

(***************************************************************************)
(* rates.js                                                                *)
(***************************************************************************)
MAX_PREFIX_LEN == 15

\* The while loop of bsearchExact over 0-based lo..hi; arr[mid] is arr[mid+1] here.
RECURSIVE bsearchLoop(_, _, _, _)
bsearchLoop(arr, key, lo, hi) ==
    IF lo > hi THEN -1
    ELSE LET mid == (lo + hi) \div 2
             v == arr[mid + 1]
         IN  IF v = key THEN mid
             ELSE IF StrLess(v, key) THEN bsearchLoop(arr, key, mid + 1, hi)
             ELSE bsearchLoop(arr, key, lo, mid - 1)

bsearchExact(arr, key) == bsearchLoop(arr, key, 0, Len(arr) - 1)

\* The for loop of longestPrefixRate, from len down to 1.
RECURSIVE longestPrefixLoop(_, _, _, _)
longestPrefixLoop(prefixes, rates, digits, len) ==
    IF len < 1 THEN Null
    ELSE LET pref == SubSeq(digits, 1, len)
             idx == bsearchExact(prefixes, pref)
         IN  IF idx # -1
             THEN [prefix |-> pref,
                   rate_usd_per_min |-> [num |-> rates[idx + 1], den |-> 1000000]]
             ELSE longestPrefixLoop(prefixes, rates, digits, len - 1)

\* The buggy variant: the loop runs upward and returns the shortest match.
RECURSIVE shortestPrefixLoop(_, _, _, _)
shortestPrefixLoop(prefixes, rates, digits, len) ==
    IF len > Min(Len(digits), MAX_PREFIX_LEN) THEN Null
    ELSE LET pref == SubSeq(digits, 1, len)
             idx == bsearchExact(prefixes, pref)
         IN  IF idx # -1
             THEN [prefix |-> pref,
                   rate_usd_per_min |-> [num |-> rates[idx + 1], den |-> 1000000]]
             ELSE shortestPrefixLoop(prefixes, rates, digits, len + 1)

longestPrefixRate_shortest(prefixes, rates, digits) ==
    IF digits = <<>> \/ Len(prefixes) # Len(rates) THEN Null
    ELSE shortestPrefixLoop(prefixes, rates, digits, 1)

longestPrefixRate(prefixes, rates, digits) ==
    IF digits = <<>> \/ Len(prefixes) # Len(rates) THEN Null
    ELSE longestPrefixLoop(prefixes, rates, digits, Min(Len(digits), MAX_PREFIX_LEN))

\* digitsOnly: the characters '0'..'9' of s (characters are numbers here,
\* a digit is 0..9 and any other number stands for a non-digit), then a
\* leading "00" removed.
RECURSIVE keepDigits(_)
keepDigits(s) ==
    IF s = <<>> THEN <<>>
    ELSE IF Head(s) >= 0 /\ Head(s) <= 9 THEN <<Head(s)>> \o keepDigits(Tail(s))
    ELSE keepDigits(Tail(s))

\* A JavaScript value that is a string, null or undefined.
Undefined == [undefined |-> TRUE]

JsString(chars) == [chars |-> chars]

\* String(s || ""): the characters of a string, none for null or undefined
StringOrEmpty(s) == IF s = Null \/ s = Undefined THEN <<>> ELSE s.chars

\* digitsOnly without the removal of the leading "00".
digitsOnly_keepZeros(s) == keepDigits(s)

\* digitsOnly, from the loop on, for the characters s.
digitsOnly(s) ==
    LET o == keepDigits(s)
    IN  IF Len(o) >= 2 /\ o[1] = 0 /\ o[2] = 0 THEN SubSeq(o, 3, Len(o)) ELSE o

\* deriveNANPLrnPrefix without the country test.
deriveNANPLrnPrefix_anyCountry(lookupData) ==
    LET lrnDigits == digitsOnly(lookupData.lrn)
    IN  IF Len(lrnDigits) < 6 THEN Null
        ELSE <<1>> \o SubSeq(lrnDigits, 1, 6)

\* deriveNANPLrnPrefix: "1" + the first six digits of the LRN for a US or CA
\* number, else null. A lookup without portability.lrn has lrn = "".
deriveNANPLrnPrefix(lookupData) ==
    IF lookupData.country_code # "US" /\ lookupData.country_code # "CA" THEN Null
    ELSE LET lrnDigits == digitsOnly(lookupData.lrn)
         IN  IF Len(lrnDigits) < 6 THEN Null
             ELSE <<1>> \o SubSeq(lrnDigits, 1, 6)

\* The variant that bills the dialed match first and the LRN match as the
\* fallback.
calculateRate_dialedFirst(lookupData, dialedDigits, prefixes, rates) ==
    LET lrnPrefix == deriveNANPLrnPrefix(lookupData)
        lrnMatch == IF lrnPrefix # Null THEN longestPrefixRate(prefixes, rates, lrnPrefix)
                    ELSE Null
        dialedMatch == longestPrefixRate(prefixes, rates, dialedDigits)
    IN  [lrnPrefix |-> lrnPrefix, lrnMatch |-> lrnMatch, dialedMatch |-> dialedMatch,
         billed |-> IF dialedMatch # Null THEN dialedMatch ELSE lrnMatch]

\* calculateRate: billed = lrnMatch || dialedMatch. The result has no
\* creditPerPage property.
calculateRate(lookupData, dialedDigits, prefixes, rates) ==
    LET lrnPrefix == deriveNANPLrnPrefix(lookupData)
        lrnMatch == IF lrnPrefix # Null THEN longestPrefixRate(prefixes, rates, lrnPrefix)
                    ELSE Null
        dialedMatch == longestPrefixRate(prefixes, rates, dialedDigits)
    IN  [lrnPrefix |-> lrnPrefix, lrnMatch |-> lrnMatch, dialedMatch |-> dialedMatch,
         billed |-> IF lrnMatch # Null THEN lrnMatch ELSE dialedMatch]

(***************************************************************************)
(* Credit quote: calculateFaxCredits and performTelnyxLookup (fax.js)      *)
(***************************************************************************)
DEFAULT_CREDIT_PER_PAGE == 1

\* The outcome of a call that may throw.
Thrown == [throws |-> TRUE]

Returned(v) == [throws |-> FALSE, value |-> v]

\* performTelnyxLookup: a cached lookup is returned; otherwise the carrier is
\* asked, a response that is not ok throws and an ok response gives
\* json?.data ?? null. fetched is what fetch() does: it throws or it gives a
\* response [ok, data].
performTelnyxLookup(cached, fetched) ==
    IF cached # Null THEN Returned(cached)
    ELSE IF fetched.throws THEN Thrown
    ELSE IF ~fetched.value.ok THEN Thrown
    ELSE Returned(fetched.value.data)

DefaultCredits(pageCount) ==
    [creditPerPage |-> DEFAULT_CREDIT_PER_PAGE,
     creditsRequired |-> DEFAULT_CREDIT_PER_PAGE * pageCount,
     rateInfo |-> Null]

\* The variant whose catch block rethrows the lookup error.
calculateFaxCredits_rethrow(destinationNumber, pageCount, hasApiKey, cached, fetched, prefixes, rates) ==
    IF destinationNumber = <<>> \/ ~hasApiKey THEN Returned(DefaultCredits(pageCount))
    ELSE IF digitsOnly(destinationNumber) = <<>> THEN Returned(DefaultCredits(pageCount))
    ELSE IF performTelnyxLookup(cached, fetched).throws THEN Thrown
    ELSE Returned(DefaultCredits(pageCount))

\* calculateFaxCredits. A destination that is null or "" is <<>> here. With
\* a billed entry creditPerPage becomes rateCalculation.creditPerPage, a
\* property calculateRate does not set: undefined, which is !== null.
calculateFaxCredits(destinationNumber, pageCount, hasApiKey, cached, fetched, prefixes, rates) ==
    IF destinationNumber = <<>> \/ ~hasApiKey THEN Returned(DefaultCredits(pageCount))
    ELSE LET dialedDigits == digitsOnly(destinationNumber)
             lookup == performTelnyxLookup(cached, fetched)
         IN  IF dialedDigits = <<>> THEN Returned(DefaultCredits(pageCount))
             ELSE IF lookup.throws
             THEN \* the catch block: the default credit per page stays
                  Returned([creditPerPage |-> DEFAULT_CREDIT_PER_PAGE,
                            creditsRequired |->
                                Times(Ceil(DEFAULT_CREDIT_PER_PAGE), pageCount),
                            rateInfo |-> Null])
             ELSE IF lookup.value = Null THEN Returned(DefaultCredits(pageCount))
             ELSE LET rateCalculation ==
                          calculateRate(lookup.value, dialedDigits, prefixes, rates)
                      creditPerPage ==
                          IF rateCalculation.billed # Null /\ undefined # NULL
                          THEN undefined ELSE DEFAULT_CREDIT_PER_PAGE
                  IN  Returned([creditPerPage |-> creditPerPage,
                                creditsRequired |-> Times(Ceil(creditPerPage), pageCount),
                                rateInfo |->
                                    IF rateCalculation.billed # Null
                                    THEN [rate_usd_per_min |->
                                              rateCalculation.billed.rate_usd_per_min,
                                          prefix |-> rateCalculation.billed.prefix,
                                          lrn_prefix_used |-> rateCalculation.lrnPrefix]
                                    ELSE Null])

(***************************************************************************)
(* The durable store.                                                      *)
(***************************************************************************)

Users == {"u1"}

FaxIds == 1..MaxFaxes

Procs == 1..MaxProcs

TerminalStatuses == {"delivered", "failed", "cancelled"}

FREEMIUM_CREDIT_LIMIT == 5

FREEMIUM_PERIOD_DAYS == 30

RECURSIVE SumSeq(_)
SumSeq(s) == IF s = <<>> THEN 0 ELSE Head(s) + SumSeq(Tail(s))

\* is_active = true AND (expires_at IS NULL OR expires_at > NOW())
ActiveSubscriptions(u) ==
    {i \in 1..Len(user_subscriptions) :
        /\ user_subscriptions[i].user_id = u
        /\ user_subscriptions[i].is_active
        /\ (user_subscriptions[i].expires_at = NULL \/ user_subscriptions[i].expires_at > now)}

\* get_user_free_credits: the rows that count towards the free balance
SpendableFreeCredits(u) ==
    {i \in 1..Len(free_credits) :
        /\ free_credits[i].user_id = u
        /\ free_credits[i].is_active
        /\ free_credits[i].expires_at > now
        /\ free_credits[i].credits_used < free_credits[i].credit_limit}

Remaining(row) == row.credit_limit - row.credits_used

\* getSpendableBalance: credit_limit - credits_used over the spendable sources
SpendableBalance(u) ==
    SumSeq([i \in 1..Len(user_subscriptions) |->
              IF i \in ActiveSubscriptions(u) /\ Remaining(user_subscriptions[i]) > 0
              THEN Remaining(user_subscriptions[i]) ELSE 0])
    + SumSeq([i \in 1..Len(free_credits) |->
              IF i \in SpendableFreeCredits(u) THEN Remaining(free_credits[i]) ELSE 0])

\* availablePages >= creditsRequired; a comparison with NaN is false.
Covers(availablePages, creditsRequired) ==
    creditsRequired # NaN /\ availablePages >= creditsRequired

\* FaxDatabaseUtils.checkUserCredits(userId, creditsRequired)
checkUserCredits(u, needed) ==
    IF ActiveSubscriptions(u) = {} /\ SpendableFreeCredits(u) = {}
    THEN [hasCredits |-> FALSE, error |-> "No active subscriptions found",
          availablePages |-> 0, subscriptions |-> {}]
    ELSE [hasCredits |-> Covers(SpendableBalance(u), needed),
          error |-> IF Covers(SpendableBalance(u), needed) THEN "" ELSE "Insufficient credits",
          availablePages |-> SpendableBalance(u),
          subscriptions |-> {user_subscriptions[i].product_id : i \in ActiveSubscriptions(u)}]

NoCheck == [hasCredits |-> FALSE, error |-> "", availablePages |-> 0, subscriptions |-> {}]

\* A worker that runs no handler. A local of a running handler is kept only
\* while the handler still reads it.
Idle ==
    [op |-> "idle", pc |-> "done", user_id |-> "", fax_id |-> NULL,
     finalPageCount |-> 0, creditsToDeduct |-> 0, subscription |-> Null,
     pages |-> 0, creditsRequired |-> 0, creditCheck |-> NoCheck, existing_count |-> 0,
     pageCount |-> NULL]

\* No push notification was attempted.
NoPush == [outcome |-> "none", status |-> ""]

NoResponse ==
    [op |-> "idle", statusCode |-> 0, error |-> "", ledgerError |-> FALSE, push |-> NoPush]

\* The response object a handler returns.
Response(op, statusCode, error) ==
    [op |-> op, statusCode |-> statusCode, error |-> error, ledgerError |-> FALSE,
     push |-> NoPush]

PaidSubscription(expires) ==
    [user_id |-> "u1", product_id |-> "pro_monthly", credit_limit |-> PaidLimit,
     credits_used |-> 0, is_active |-> TRUE, expires_at |-> expires]

SignupGrant ==
    [user_id |-> "u1", type |-> "signup", credit_limit |-> SignupCredits,
     credits_used |-> 0, is_active |-> TRUE, expires_at |-> 1]

\* The credit sources before the first request: a brand-new user, a user with
\* a paid subscription that expires on day 1, a user with a signup grant only,
\* and a user with a never-expiring paid subscription and a signup grant.
\* No lookup is cached and no rewarded video is recorded.
NoEdgeStores ==
    /\ LOOKUP_KV = <<>>
    /\ cache = <<>>
    /\ fetches = <<>>
    /\ rewarded_video_completions = <<>>
    /\ referral_invites = <<>>
    /\ profiles = <<>>

InitialStores ==
    {<<<<>>, <<>>>>,
     <<<<PaidSubscription(1)>>, <<>>>>,
     <<<<>>, <<SignupGrant>>>>,
     <<<<PaidSubscription(NULL)>>, <<SignupGrant>>>>}

Init ==
    /\ now = 0
    /\ faxes = [f \in FaxIds |-> Null]
    /\ usage = <<>>
    /\ \E store \in InitialStores :
         /\ user_subscriptions = store[1]
         /\ free_credits = store[2]
    /\ webhook_events = 0
    /\ unlogged = 0
    /\ creditsAdded = [f \in FaxIds |-> 0]
    /\ inv = [p \in Procs |-> Idle]
    /\ response = NoResponse
    /\ args = Null
    /\ ret = Null
    /\ users_credit_ledger = <<>>
    /\ NoEdgeStores

\* The clock advances.
Tick ==
    /\ now < MaxNow
    /\ now' = now + 1
    /\ UNCHANGED <<faxes, usage, user_subscriptions, free_credits, webhook_events, unlogged,
                   creditsAdded, inv, response, args, ret,
                   users_credit_ledger, edgeVars>>

\* Requests are served by the free worker of lowest number.
Free(p) ==
    /\ inv[p].pc = "done"
    /\ \A q \in Procs : q < p => inv[q].pc # "done"

SendsInFlight == {p \in Procs : inv[p].op = "sendFax"}

FaxesSaved == {f \in FaxIds : faxes[f] # Null}

(***************************************************************************)
(* sendFax                                                                 *)
(***************************************************************************)
\* The recipients of a submission with what the quote finds for them: a
\* number the rate table has no entry for, and a number it has an entry for.
Recipients ==
    {[number |-> <<1, 1>>, fetched |-> Returned([ok |-> TRUE, data |-> Null]),
      prefixes |-> <<>>, rates |-> <<>>],
     [number |-> <<1, 1>>,
      fetched |-> Returned([ok |-> TRUE, data |-> [country_code |-> "US", lrn |-> <<>>]]),
      prefixes |-> <<<<1>>>>, rates |-> <<1>>]}

\* sendFax up to its first database call: the credit quote of
\* calculateFaxCredits, then checkUserCredits and the branch into freemium
\* provisioning.
SendFaxCheckCredits(p) ==
    /\ Free(p)
    /\ Cardinality(SendsInFlight) + Cardinality(FaxesSaved) < MaxFaxes
    /\ \E u \in Users, pages \in 1..MaxPages, recipient \in Recipients :
         LET creditCalculation ==
                 calculateFaxCredits(recipient.number, pages, TRUE, Null, recipient.fetched,
                                     recipient.prefixes, recipient.rates).value
             creditsRequired == creditCalculation.creditsRequired
             creditCheck == checkUserCredits(u, creditsRequired)
         IN  inv' = [inv EXCEPT ![p] =
                 [Idle EXCEPT !.op = "sendFax", !.user_id = u, !.pages = pages,
                              !.creditsRequired = creditsRequired,
                              !.creditCheck = creditCheck,
                              !.pc = IF ~creditCheck.hasCredits
                                        /\ creditCheck.error = "No active subscriptions found"
                                     THEN "freemiumCount" ELSE "decide"]]
    /\ UNCHANGED <<now, faxes, usage, user_subscriptions, free_credits, webhook_events, unlogged,
                   creditsAdded, response, args, ret,
                   users_credit_ledger, edgeVars>>

\* create_freemium_subscription_for_user: SELECT COUNT(*) ... WHERE
\* is_active = true AND expires_at > NOW(); a NULL expires_at compares as
\* unknown and the row is not counted.
existing_count(user_uuid) ==
    Cardinality({i \in 1..Len(user_subscriptions) :
        /\ user_subscriptions[i].user_id = user_uuid
        /\ user_subscriptions[i].is_active
        /\ user_subscriptions[i].expires_at # NULL
        /\ user_subscriptions[i].expires_at > now})

\* The row create_freemium_subscription_for_user inserts.
FreemiumRow(user_uuid) ==
    [user_id |-> user_uuid, product_id |-> "freemium_monthly",
     credit_limit |-> FREEMIUM_CREDIT_LIMIT, credits_used |-> 0,
     is_active |-> TRUE, expires_at |-> now + FREEMIUM_PERIOD_DAYS]

\* create_freemium_subscription_for_user, first statement: the count of the
\* active subscriptions; or the rpc fails.
FreemiumCount(p) ==
    /\ inv[p].op = "sendFax" /\ inv[p].pc = "freemiumCount"
    /\ \/ inv' = [inv EXCEPT
                    ![p].existing_count = existing_count(inv[p].user_id),
                    ![p].pc = "freemiumInsert"]
       \/ inv' = [inv EXCEPT ![p].pc = "decide"]
    /\ UNCHANGED <<now, faxes, usage, user_subscriptions, free_credits, webhook_events, unlogged,
                   creditsAdded, response, args, ret,
                   users_credit_ledger, edgeVars>>

\* create_freemium_subscription_for_user, second statement: the INSERT when
\* the count was 0; sendFax re-checks the credits only if a row was created.
FreemiumInsert(p) ==
    /\ inv[p].op = "sendFax" /\ inv[p].pc = "freemiumInsert"
    /\ IF inv[p].existing_count = 0
       THEN /\ user_subscriptions' = Append(user_subscriptions, FreemiumRow(inv[p].user_id))
            /\ inv' = [inv EXCEPT ![p].pc = "recheckCredits"]
       ELSE /\ inv' = [inv EXCEPT ![p].pc = "decide"]
            /\ UNCHANGED user_subscriptions
    /\ UNCHANGED <<now, faxes, usage, free_credits, webhook_events, unlogged,
                   creditsAdded, response, args, ret,
                   users_credit_ledger, edgeVars>>

\* The second checkUserCredits, after a freemium row was created.
SendFaxRecheckCredits(p) ==
    /\ inv[p].op = "sendFax" /\ inv[p].pc = "recheckCredits"
    /\ inv' = [inv EXCEPT
                 ![p].creditCheck = checkUserCredits(inv[p].user_id, inv[p].creditsRequired),
                 ![p].pc = "decide"]
    /\ UNCHANGED <<now, faxes, usage, user_subscriptions, free_credits, webhook_events, unlogged,
                   creditsAdded, response, args, ret,
                   users_credit_ledger, edgeVars>>

\* The fax id the carrier hands out next.
NextFaxId == CHOOSE f \in FaxIds \ FaxesSaved : \A g \in FaxIds \ FaxesSaved : f <= g

\* A submission that charges the first credit source of the user when the
\* fax is accepted.
SendFaxDecide_deduct(p) ==
    /\ inv[p].op = "sendFax" /\ inv[p].pc = "decide"
    /\ inv' = [inv EXCEPT ![p] = Idle]
    /\ IF ~inv[p].creditCheck.hasCredits
       THEN /\ response' = Response("sendFax", 402, "Insufficient credits")
            /\ UNCHANGED <<faxes, user_subscriptions>>
       ELSE /\ faxes' = [faxes EXCEPT ![NextFaxId] =
                           [user_id |-> inv[p].user_id, status |-> "queued",
                            pages |-> inv[p].pages, submitted_pages |-> inv[p].pages,
                            cost |-> Or(Ceil(inv[p].creditsRequired), 0)]]
            /\ response' = Response("sendFax", 200, "")
            /\ user_subscriptions' =
                 [i \in 1..Len(user_subscriptions) |->
                    IF i = 1
                    THEN [user_subscriptions[i] EXCEPT
                            !.credits_used = @ + inv[p].creditsRequired]
                    ELSE user_subscriptions[i]]
    /\ UNCHANGED <<now, usage, free_credits, webhook_events, unlogged,
                   creditsAdded, args, ret,
                   users_credit_ledger, edgeVars>>

\* The 402 denial, or the submission to the carrier and the saved fax record
\* (status queued, cost = Math.ceil(creditsRequired) || 0; submitted_pages is
\* no column, it keeps the page count of the submission for the properties,
\* as no update writes it); a carrier failure
\* is answered with 500, and a failed save is caught and logged by
\* saveFaxRecordForStandardWorkflow, after which sendFax answers 200.
SendFaxDecide(p) ==
    /\ inv[p].op = "sendFax" /\ inv[p].pc = "decide"
    /\ inv' = [inv EXCEPT ![p] = Idle]
    /\ IF ~inv[p].creditCheck.hasCredits
       THEN /\ response' = Response("sendFax", 402,
                  IF "freemium_monthly" \in inv[p].creditCheck.subscriptions
                  THEN IF inv[p].pages > FREEMIUM_CREDIT_LIMIT
                       THEN "Page limit exceeded" ELSE "Monthly limit reached"
                  ELSE "Insufficient credits")
            /\ UNCHANGED faxes
       ELSE \/ /\ faxes' = [faxes EXCEPT ![NextFaxId] =
                              [user_id |-> inv[p].user_id, status |-> "queued",
                               pages |-> inv[p].pages, submitted_pages |-> inv[p].pages,
                               cost |-> Or(Ceil(inv[p].creditsRequired), 0)]]
               /\ response' = Response("sendFax", 200, "")
            \/ /\ response' = Response("sendFax", 200, "")
               /\ UNCHANGED faxes
            \/ /\ response' = Response("sendFax", 500, "Fax sending failed")
               /\ UNCHANGED faxes
    /\ UNCHANGED <<now, usage, user_subscriptions, free_credits, webhook_events, unlogged,
                   creditsAdded, args, ret,
                   users_credit_ledger, edgeVars>>

(***************************************************************************)
(* Carrier callbacks: telnyxWebhook and notifyreWebhook                    *)
(***************************************************************************)
\* page_count / pages of a callback: absent, 0, or more than was submitted
CarrierPageCounts == {NULL, MaxPages + 1}

TelnyxStatuses == {"sending", "delivered", "failed"}

TelnyxFailureReasons == {"", "user_busy"}

\* TelnyxProvider.mapStatus: the carrier's status or failure reason in the
\* service's vocabulary.
mapStatus(s) ==
    CASE s = "delivered" -> "delivered"
      [] s \in {"failed", "user_busy"} -> "failed"
      [] s = "cancelled" -> "cancelled"
      [] s = "sending" -> "processing"
      [] OTHER -> "queued"

NotifyreStatuses == {"", "sent", "Delivered", "error", "cancelled", "Busy"}

\* String.prototype.toLowerCase on the statuses above
toLowerCase(s) ==
    CASE s = "Delivered" -> "delivered"
      [] s = "Busy" -> "busy"
      [] OTHER -> s

\* The switch of notifyreWebhook: an unknown status is passed through as is,
\* a missing one becomes queued.
notifyreStatus(statusFromPayload) ==
    CASE toLowerCase(statusFromPayload) \in {"sent", "delivered"} -> "delivered"
      [] toLowerCase(statusFromPayload) \in {"failed", "error"} -> "failed"
      [] toLowerCase(statusFromPayload) = "cancelled" -> "cancelled"
      [] toLowerCase(statusFromPayload) = "processing" -> "processing"
      [] OTHER -> IF statusFromPayload # "" THEN statusFromPayload ELSE "queued"

\* A row with the columns of updateData overwritten.
ApplyUpdate(row, updateData) ==
    [k \in DOMAIN row |-> IF k \in DOMAIN updateData THEN updateData[k] ELSE row[k]]

\* The UPDATE of updateFaxRecord matches a row and passes the NOT NULL
\* constraint on faxes.cost.
UpdateApplies(id, updateData) ==
    /\ faxes[id] # Null
    /\ ~("cost" \in DOMAIN updateData /\ updateData.cost = NULL)

\* DatabaseUtils.updateFaxRecord(id, updateData, ..., 'provider_fax_id'): the
\* faxes table after the UPDATE.
updateFaxRecord(id, updateData) ==
    IF UpdateApplies(id, updateData)
    THEN [faxes EXCEPT ![id] = ApplyUpdate(@, updateData)]
    ELSE faxes

\* What updateFaxRecord returns: the updated row, or null.
updatedFaxRecord(id, updateData) ==
    IF UpdateApplies(id, updateData) THEN ApplyUpdate(faxes[id], updateData) ELSE Null

\* updateData of telnyxWebhook: pages is set for a positive page_count, and
\* to 0 only when the status is not failed.
TelnyxUpdateData(standardizedStatus, pageCount) ==
    IF pageCount # NULL /\ pageCount > 0
    THEN [status |-> standardizedStatus, pages |-> pageCount]
    ELSE IF pageCount = 0 /\ standardizedStatus # "failed"
    THEN [status |-> standardizedStatus, pages |-> 0]
    ELSE [status |-> standardizedStatus]

\* updateData of notifyreWebhook: pages is set for a positive page count.
NotifyreUpdateData(standardizedStatus, pageCount) ==
    IF pageCount # NULL /\ pageCount > 0
    THEN [status |-> standardizedStatus, pages |-> pageCount]
    ELSE [status |-> standardizedStatus]

\* The handler up to the end of its first database calls, for a body that
\* parses and names a fax: updateFaxRecord overwrites the fax row with the
\* standardized status and storeWebhookEvent logs the callback. The accrual block is
\* entered only for a delivered status with an updated record that has a
\* user, and starts with creditsToDeduct and finalPageCount; every other
\* callback is answered 200.
\* What sendFaxStatusNotification does: the notification is sent, skipped
\* (no device, disabled), fails (OneSignal not configured or its API refuses),
\* or the call throws.
PushOutcomes == {"sent", "skipped", "failed", "threw"}

\* What the response records of the notification: whether it was sent.
Pushed(status, outcome) ==
    [outcome |-> IF outcome = "sent" THEN "sent" ELSE "notSent", status |-> status]

\* A notification whose error is thrown on to the handler's outer catch.
sendFaxStatusPushNotification_rethrow(r, status, outcome) ==
    [IF outcome = "threw"
     THEN [r EXCEPT !.statusCode = 500, !.error = "Webhook processing failed"]
     ELSE r EXCEPT !.push = Pushed(status, outcome)]

\* sendFaxStatusPushNotification: every outcome is logged, an error is
\* caught; the handler's response r is as it was.
sendFaxStatusPushNotification(r, status, outcome) ==
    [r EXCEPT !.push = Pushed(status, outcome)]

\* The handler answers r after the push notification block: for a row that
\* was found (updatedFaxRecord with its user_id) and a status of delivered or failed the notification is
\* attempted, with any of its outcomes; otherwise it is skipped.
WebhookResponds(r, found, standardizedStatus) ==
    IF found /\ standardizedStatus \in {"delivered", "failed"}
    THEN \E outcome \in PushOutcomes :
            response' = sendFaxStatusPushNotification(r, standardizedStatus, outcome)
    ELSE response' = r

WebhookReceive(p, op, fax_id, standardizedStatus, pageCount, updateData) ==
    /\ Free(p)
    /\ webhook_events + unlogged < MaxCallbacks
    /\ faxes' = updateFaxRecord(fax_id, updateData)
    /\ webhook_events' = webhook_events + 1
    /\ LET record == updatedFaxRecord(fax_id, updateData)
       IN  IF standardizedStatus = "delivered" /\ record # Null
           THEN /\ inv' = [inv EXCEPT ![p] =
                       [Idle EXCEPT
                          !.op = op, !.pc = "recordUsage", !.fax_id = fax_id,
                          !.user_id = record.user_id,
                          !.creditsToDeduct =
                              IF record.cost # NULL THEN Ceil(record.cost)
                              ELSE Or(pageCount, Or(record.pages, 1)),
                          !.finalPageCount = Or(pageCount, Or(record.pages, 1)),
                          !.pageCount = pageCount]]
                /\ UNCHANGED response
           ELSE /\ WebhookResponds(Response(op, 200, ""), record # Null,
                                    standardizedStatus)
                /\ UNCHANGED inv
    /\ UNCHANGED <<now, usage, user_subscriptions, free_credits, unlogged, creditsAdded,
                   args, ret,
                   users_credit_ledger, edgeVars>>

\* A callback the handler answers without touching the database: 500 from
\* the outer catch when request.json() throws, 400 when the payload has no
\* fax id.
WebhookReject(p, op) ==
    /\ Free(p)
    /\ webhook_events + unlogged < MaxCallbacks
    /\ unlogged' = unlogged + 1
    /\ \/ response' = Response(op, 500, "Webhook processing failed")
       \/ response' = Response(op, 400, "Invalid webhook payload")
    /\ UNCHANGED <<now, faxes, usage, user_subscriptions, free_credits, webhook_events,
                   creditsAdded, inv, args, ret,
                   users_credit_ledger, edgeVars>>

TelnyxWebhookReceive(p) ==
    \/ WebhookReject(p, "telnyxWebhook")
    \/ \E fax_id \in FaxIds, status \in TelnyxStatuses,
          failure_reason \in TelnyxFailureReasons, page_count \in CarrierPageCounts :
         LET standardizedStatus ==
                 mapStatus(IF failure_reason # "" THEN failure_reason ELSE status)
         IN  WebhookReceive(p, "telnyxWebhook", fax_id, standardizedStatus,
                            page_count, TelnyxUpdateData(standardizedStatus, page_count))

NotifyreWebhookReceive(p) ==
    \/ WebhookReject(p, "notifyreWebhook")
    \/ \E id \in FaxIds, status \in NotifyreStatuses, pages \in CarrierPageCounts :
         LET standardizedStatus == notifyreStatus(status)
             pageCount == Or(pages, NULL)
         IN  WebhookReceive(p, "notifyreWebhook", id, standardizedStatus,
                            pageCount, NotifyreUpdateData(standardizedStatus, pageCount))

\* DatabaseUtils.recordUsage: one row of the usage table.
WebhookRecordUsage(p, op) ==
    /\ inv[p].op = op /\ inv[p].pc = "recordUsage"
    /\ usage' = Append(usage,
           [user_id |-> inv[p].user_id, usage_amount |-> inv[p].finalPageCount,
            fax_id |-> inv[p].fax_id, credits_deducted |-> inv[p].creditsToDeduct])
    /\ inv' = [inv EXCEPT ![p].finalPageCount = 0, ![p].pageCount = NULL,
                           ![p].pc = "readSubscriptions"]
    /\ UNCHANGED <<now, faxes, user_subscriptions, free_credits, webhook_events, unlogged,
                   creditsAdded, response, args, ret,
                   users_credit_ledger, edgeVars>>

TelnyxRecordUsage(p) == WebhookRecordUsage(p, "telnyxWebhook")

NotifyreRecordUsage(p) == WebhookRecordUsage(p, "notifyreWebhook")

\* A failed read or update in the accrual block, rethrown to the outer catch.
AccrualCatch_rethrow(op) ==
    [op |-> op, statusCode |-> 500, error |-> "Webhook processing failed",
     ledgerError |-> TRUE, push |-> NoPush]

\* A failed read or update in the accrual block is only logged (subError
\* skips the update, updateError and the inner catch log): the handler goes
\* on to its 200 response.
AccrualCatch(op) ==
    [op |-> op, statusCode |-> 200, error |-> "", ledgerError |-> TRUE, push |-> NoPush]

\* The select of the user's active subscriptions, newest first, filtered on
\* expires_at; the first one is the row to update. Without one the handler
\* answers 200.
WebhookReadSubscriptions(p, op) ==
    /\ inv[p].op = op /\ inv[p].pc = "readSubscriptions"
    /\ \/ LET subscriptions == ActiveSubscriptions(inv[p].user_id)
          IN  IF subscriptions = {}
              THEN /\ inv' = [inv EXCEPT ![p] = Idle]
                   /\ WebhookResponds(Response(op, 200, ""), TRUE, "delivered")
              ELSE LET id == CHOOSE i \in subscriptions : \A j \in subscriptions : j <= i
                   IN  /\ inv' = [inv EXCEPT
                                    ![p].subscription =
                                        [id |-> id,
                                         credits_used |-> user_subscriptions[id].credits_used],
                                    ![p].user_id = "",
                                    ![p].pc = "updateCredits"]
                       /\ UNCHANGED response
       \/ /\ inv' = [inv EXCEPT ![p] = Idle]
          /\ WebhookResponds(AccrualCatch(op), TRUE, "delivered")
    /\ UNCHANGED <<now, faxes, usage, user_subscriptions, free_credits, webhook_events, unlogged,
                   creditsAdded, args, ret,
                   users_credit_ledger, edgeVars>>

TelnyxReadSubscriptions(p) == WebhookReadSubscriptions(p, "telnyxWebhook")

NotifyreReadSubscriptions(p) == WebhookReadSubscriptions(p, "notifyreWebhook")

\* The update of credits_used to the value read plus creditsToDeduct, the
\* push notification (its failures are swallowed) and the 200 response.
WebhookUpdateCredits(p, op) ==
    /\ inv[p].op = op /\ inv[p].pc = "updateCredits"
    /\ inv' = [inv EXCEPT ![p] = Idle]
    /\ \/ /\ user_subscriptions' =
                [user_subscriptions EXCEPT ![inv[p].subscription.id].credits_used =
                    Or(inv[p].subscription.credits_used, 0) + inv[p].creditsToDeduct]
          /\ creditsAdded' = [creditsAdded EXCEPT ![inv[p].fax_id] = @ + inv[p].creditsToDeduct]
          /\ WebhookResponds(Response(op, 200, ""), TRUE, "delivered")
       \/ /\ WebhookResponds(AccrualCatch(op), TRUE, "delivered")
          /\ UNCHANGED <<user_subscriptions, creditsAdded>>
    /\ UNCHANGED <<now, faxes, usage, free_credits, webhook_events, unlogged, args, ret,
                   users_credit_ledger, edgeVars>>

TelnyxUpdateCredits(p) == WebhookUpdateCredits(p, "telnyxWebhook")

NotifyreUpdateCredits(p) == WebhookUpdateCredits(p, "notifyreWebhook")

(***************************************************************************)
(* Status polling cron: handleFaxStatusPolling                             *)
(***************************************************************************)
NotifyreApiStatuses == {"successful", "failed", "sending"}

\* mapNotifyreStatus: the status of the carrier's fax list in the service's
\* vocabulary.
mapNotifyreStatus(s) ==
    CASE s = "successful" -> "delivered"
      [] s = "failed" -> "failed"
      [] s = "sending" -> "processing"
      [] OTHER -> "queued"

\* One iteration of the polling loop: the fax row is overwritten with the
\* carrier's status, pages (|| 1) and cost (|| null), the carrier's own
\* charge for the fax.
PollFaxStatus ==
    /\ webhook_events + unlogged < MaxCallbacks
    /\ unlogged' = unlogged + 1
    /\ \E id \in FaxIds, status \in NotifyreApiStatuses, pages \in {0, MaxPages + 1},
          cost \in {0, MaxPages + 1} :
         faxes' = updateFaxRecord(id,
                     [status |-> mapNotifyreStatus(status), pages |-> Or(pages, 1),
                      cost |-> Or(cost, NULL)])
    /\ UNCHANGED <<now, usage, user_subscriptions, free_credits, webhook_events,
                   creditsAdded, inv, response, args, ret,
                   users_credit_ledger, edgeVars>>

Next ==
    \/ Tick
    \/ PollFaxStatus
    \/ \E p \in Procs :
        \/ SendFaxCheckCredits(p)
        \/ FreemiumCount(p)
        \/ FreemiumInsert(p)
        \/ SendFaxRecheckCredits(p)
        \/ SendFaxDecide(p)
        \/ TelnyxWebhookReceive(p)
        \/ NotifyreWebhookReceive(p)
        \/ TelnyxRecordUsage(p)
        \/ NotifyreRecordUsage(p)
        \/ TelnyxReadSubscriptions(p)
        \/ NotifyreReadSubscriptions(p)
        \/ TelnyxUpdateCredits(p)
        \/ NotifyreUpdateCredits(p)

Spec == Init /\ [][Next]_vars

(***************************************************************************)
(* Properties of the delivery ledger                                       *)
(***************************************************************************)
WebhookOps == {"telnyxWebhook", "notifyreWebhook"}

\* The rows of the usage table written for fax f.
UsageRecordsOf(f) == Cardinality({i \in 1..Len(usage) : usage[i].fax_id = f})

\* Every fax has been accrued at most once.
EachFaxAccruedOnce == \A f \in FaxIds : UsageRecordsOf(f) <= 1

\* C1: however often the delivered callback of one fax is processed, the fax
\* has at most one usage record and its cost has been added to credits_used
\* at most once.
OneUsageRecordPerFax ==
    \A f \in FaxIds :
        faxes[f] # Null =>
            /\ UsageRecordsOf(f) <= 1
            /\ creditsAdded[f] <= Ceil(faxes[f].cost)

\* C2: a fax whose status is delivered, failed or cancelled keeps that status
\* in every later step, whatever callback or polled status arrives.
TerminalStatusFinal ==
    [][\A f \in FaxIds :
          (faxes[f] # Null /\ faxes[f].status \in TerminalStatuses)
              => faxes'[f].status = faxes[f].status]_vars

\* C3: a fax whose status is failed or cancelled has no usage record and has
\* added nothing to any credits_used.
NoChargeForFailedFax ==
    \A f \in FaxIds :
        (faxes[f] # Null /\ faxes[f].status \in {"failed", "cancelled"})
            => (UsageRecordsOf(f) = 0 /\ creditsAdded[f] = 0)

\* C4: the step that ends the accrual of a delivered fax lowers the owner's
\* spendable balance (subscriptions plus free credits) by exactly the credits
\* to deduct, ceil(cost) of the fax.
DeliveredDeductsCost ==
    [][\A p \in Procs, u \in Users :
          (/\ inv[p].op \in WebhookOps
           /\ inv[p].pc \in {"readSubscriptions", "updateCredits"}
           /\ inv'[p].pc = "done"
           /\ faxes[inv[p].fax_id].user_id = u)
              => SpendableBalance(u)' = SpendableBalance(u) - inv[p].creditsToDeduct]_vars

\* credits_used summed over the subscriptions
CreditsUsedTotal ==
    SumSeq([i \in 1..Len(user_subscriptions) |-> user_subscriptions[i].credits_used])

\* the credits every accrual has added, summed over the faxes
CreditsAddedTotal == SumSeq([f \in FaxIds |-> creditsAdded[f]])

\* C5: when every fax is accrued once, credits_used over the subscriptions is
\* the sum of the credits the accruals added: concurrent accruals of two
\* faxes lose no deduction.
NoLostDeduction == EachFaxAccruedOnce => CreditsUsedTotal = CreditsAddedTotal

\* C6: when every fax is accrued once, every subscription and every free
\* credit grant has 0 <= credits_used <= credit_limit.
CreditsUsedWithinLimit ==
    EachFaxAccruedOnce =>
        /\ \A i \in 1..Len(user_subscriptions) :
              /\ 0 <= user_subscriptions[i].credits_used
              /\ user_subscriptions[i].credits_used <= user_subscriptions[i].credit_limit
        /\ \A i \in 1..Len(free_credits) :
              /\ 0 <= free_credits[i].credits_used
              /\ free_credits[i].credits_used <= free_credits[i].credit_limit

\* C7: a user has at most one active freemium subscription, however many
\* first sends ran at the same time.
OneActiveFreemium ==
    \A u \in Users :
        Cardinality({i \in ActiveSubscriptions(u) :
                        user_subscriptions[i].product_id = "freemium_monthly"}) <= 1

\* C8: every response of telnyxWebhook and notifyreWebhook is a 200.
WebhookAlwaysAcknowledges ==
    response.op \in WebhookOps => response.statusCode = 200

\* C9: a step in which the read or the update of the subscription fails ends
\* the webhook with a 200 and leaves the fax rows and the usage table, with
\* the usage record of the fax, as they were.
LedgerFailureStillAcknowledged ==
    [][\A p \in Procs, f \in FaxIds :
          (/\ inv[p].op \in WebhookOps
           /\ inv[p].pc \in {"readSubscriptions", "updateCredits"}
           /\ inv[p].fax_id = f
           /\ inv'[p].pc = "done"
           /\ response'.ledgerError)
              => /\ response'.op = inv[p].op
                 /\ response'.statusCode = 200
                 /\ faxes' = faxes
                 /\ usage' = usage
                 /\ UsageRecordsOf(f)' >= 1]_vars

\* C9 witness: a webhook has answered 200 after its ledger step failed, with
\* the delivered status and the usage record in the database.
LedgerFailureWitness ==
    /\ response.op \in WebhookOps
    /\ response.ledgerError
    /\ response.statusCode = 200
    /\ \E f \in FaxIds :
          faxes[f] # Null /\ faxes[f].status = "delivered" /\ UsageRecordsOf(f) >= 1

\* Worker p takes the last step of sendFax.
SendFaxReturns(p) ==
    inv[p].op = "sendFax" /\ inv[p].pc = "decide" /\ inv'[p].op = "idle"

\* C14: every sendFax that returns success leaves a persisted fax record
\* with status queued whose cost is the creditsRequired that was checked
\* against the user's balance.
SuccessPersistsQuotedCost ==
    [][\A p \in Procs :
         (SendFaxReturns(p) /\ response'.statusCode = 200) =>
             \E f \in FaxIds :
                /\ faxes[f] = Null /\ faxes'[f] # Null
                /\ faxes'[f].status = "queued"
                /\ faxes'[f].cost = inv[p].creditsRequired]_vars

\* Worker p takes a step of sendFax.
SendFaxStep(p) == inv[p].op = "sendFax" \/ inv'[p].op = "sendFax"

\* C15: no step of sendFax, whether it approves, denies or fails, changes
\* credits_used of an existing subscription or free-credit row or creates a
\* usage record.
NothingDeductedAtSubmission ==
    [][\A p \in Procs :
         (SendFaxStep(p) /\ inv'[p] # inv[p]) =>
             /\ usage' = usage
             /\ free_credits' = free_credits
             /\ Len(user_subscriptions') >= Len(user_subscriptions)
             /\ \A i \in 1..Len(user_subscriptions) :
                   user_subscriptions'[i] = user_subscriptions[i]]_vars

\* C15 witness: a submission was approved and answered 200, its fax record
\* carries a cost of 1, and the paid subscription still has credits_used 0.
NothingDeductedWitness ==
    /\ response.op = "sendFax" /\ response.statusCode = 200
    /\ \E f \in FaxIds : faxes[f] # Null /\ faxes[f].status = "queued" /\ faxes[f].cost = 1
    /\ usage = <<>>
    /\ Len(user_subscriptions) = 1
    /\ user_subscriptions[1].product_id = "pro_monthly"
    /\ user_subscriptions[1].credits_used = 0
    /\ \A p \in Procs : inv[p] = Idle

\* C22: the usage record emitted on delivery has usageAmount equal to the
\* page count of the callback when it carries one, and otherwise to the page
\* count the fax was submitted with.
UsageAmountIsConfirmedPages ==
    \A p \in Procs :
        (inv[p].op \in WebhookOps /\ inv[p].pc = "recordUsage") =>
            inv[p].finalPageCount =
                IF inv[p].pageCount # NULL THEN inv[p].pageCount
                ELSE faxes[inv[p].fax_id].submitted_pages

\* The vocabulary of fax statuses.
FaxStatuses == {"queued", "processing", "delivered", "failed", "cancelled"}

\* C23: the status a carrier callback writes to a fax record is always one
\* of queued, processing, delivered, failed and cancelled.
StatusInVocabulary ==
    \A f \in FaxIds : faxes[f] # Null => faxes[f].status \in FaxStatuses

\* C24: a request is never denied for lack of a subscription while an active
\* subscription of the user covers it.
NotDeniedWhileCovered ==
    [][\A p \in Procs, u \in Users :
         (/\ SendFaxReturns(p)
          /\ inv[p].user_id = u
          /\ response'.statusCode = 402
          /\ inv[p].creditCheck.error = "No active subscriptions found")
         => ~(/\ \E i \in ActiveSubscriptions(u) :
                    user_subscriptions[i].product_id = "freemium_monthly"
              /\ Covers(SpendableBalance(u), inv[p].creditsRequired))]_vars

\* C25: a denied freemium user is told "Page limit exceeded" exactly when
\* the request itself has more than 5 pages, and "Monthly limit reached"
\* only when the freemium subscription has no credits left.
DenialNamesTheLimit ==
    [][\A p \in Procs, u \in Users :
         (/\ SendFaxReturns(p)
          /\ inv[p].user_id = u
          /\ response'.statusCode = 402
          /\ "freemium_monthly" \in inv[p].creditCheck.subscriptions)
         => /\ response'.error = "Page limit exceeded"
                 <=> inv[p].pages > FREEMIUM_CREDIT_LIMIT
            /\ response'.error = "Monthly limit reached"
                 => \A i \in ActiveSubscriptions(u) :
                       user_subscriptions[i].product_id = "freemium_monthly"
                         => user_subscriptions[i].credits_used
                              >= user_subscriptions[i].credit_limit]_vars

(***************************************************************************)
(* Inputs of the rate-table functions.                                     *)
(***************************************************************************)
Digits == {1, 2}

Ones(n) == [i \in 1..n |-> 1]

\* Digit strings: every string over Digits up to MaxDigitsLen, and strings
\* around the MAX_PREFIX_LEN limit.
DigitStrings ==
    UNION {[1..n -> Digits] : n \in 0..MaxDigitsLen}
        \cup {Ones(n) : n \in (MAX_PREFIX_LEN - 1)..(MAX_PREFIX_LEN + 1)}

PrefixCandidates == DigitStrings \ {<<>>}

\* prefixes ascending in JavaScript string order, hence without duplicates
IsSortedTable(t) == \A i \in 1..Len(t) : \A j \in 1..Len(t) : i < j => StrLess(t[i], t[j])

SortedTables ==
    UNION {{t \in [1..n -> PrefixCandidates] : IsSortedTable(t)} : n \in 0..MaxTable}

\* Carrier lookups: no LRN, a short LRN, LRNs of a US and a CA number that
\* start with either digit, an LRN with a separator (10 stands for "-"), an
\* LRN whose leading "00" is removed, and the LRN of a number outside NANP.
LookupDatas ==
    {[country_code |-> "US", lrn |-> <<>>],
     [country_code |-> "US", lrn |-> <<1, 1, 1, 1, 1>>],
     [country_code |-> "US", lrn |-> <<1, 1, 1, 1, 1, 1, 1, 1, 1, 1>>],
     [country_code |-> "CA", lrn |-> <<2, 1, 1, 1, 1, 1, 1, 1, 1, 1>>],
     [country_code |-> "US", lrn |-> <<2, 10, 2, 1, 1, 1, 1, 1>>],
     [country_code |-> "US", lrn |-> <<0, 0, 2, 1, 1, 1, 1>>],
     [country_code |-> "GB", lrn |-> <<1, 1, 1, 1, 1, 1, 1, 1, 1, 1>>]}

\* The rate table is evaluated without the store: an empty database.
NoDb ==
    /\ now = 0
    /\ faxes = [f \in FaxIds |-> Null]
    /\ usage = <<>>
    /\ user_subscriptions = <<>>
    /\ free_credits = <<>>
    /\ webhook_events = 0
    /\ unlogged = 0
    /\ creditsAdded = [f \in FaxIds |-> 0]
    /\ inv = [p \in Procs |-> Idle]
    /\ response = NoResponse
    /\ users_credit_ledger = <<>>
    /\ NoEdgeStores

\* Strings over the characters 0, 1 and "-" (10), with null and undefined.
JsStrings ==
    {JsString(c) : c \in UNION {[1..n -> {0, 1, 10}] : n \in 0..MaxChars}}
        \cup {Null, Undefined}

\* LRNs of up to 11 characters: a run of 1s between two short strings over
\* 0, 2 and "-" (10).
LrnStrings ==
    LET Short == UNION {[1..n -> {0, 2, 10}] : n \in 0..2}
    IN  {a \o Ones(n) \o b : a \in Short, b \in Short, n \in 0..7}

RateInit ==
    /\ NoDb
    /\ \/ \E t \in SortedTables, d \in DigitStrings :
            \E r \in [1..Len(t) -> 1..MaxRate] :
               \/ args = [fn |-> "longestPrefixRate", prefixes |-> t, rates |-> r,
                          digits |-> d]
               \/ \E l \in LookupDatas :
                     args = [fn |-> "calculateRate", lookupData |-> l, dialedDigits |-> d,
                             prefixes |-> t, rates |-> r]
       \/ \E str \in JsStrings : args = [fn |-> "digitsOnly", s |-> str]
       \/ \E cc \in {"US", "CA", "GB", ""}, lrn \in LrnStrings :
            args = [fn |-> "deriveNANPLrnPrefix",
                    lookupData |-> [country_code |-> cc, lrn |-> lrn]]
    /\ ret = [pending |-> TRUE]

\* One evaluation of longestPrefixRate(prefixes, rates, digits).
EvalLongestPrefixRate ==
    /\ args.fn = "longestPrefixRate"
    /\ ret = [pending |-> TRUE]
    /\ ret' = [value |-> longestPrefixRate(args.prefixes, args.rates, args.digits)]
    /\ UNCHANGED <<args, dbVars>>

\* One evaluation of calculateRate(lookupData, dialedDigits, prefixes, rates).
EvalCalculateRate ==
    /\ args.fn = "calculateRate"
    /\ ret = [pending |-> TRUE]
    /\ ret' = [value |-> calculateRate(args.lookupData, args.dialedDigits,
                                       args.prefixes, args.rates)]
    /\ UNCHANGED <<args, dbVars>>

\* One evaluation of digitsOnly(s).
EvalDigitsOnly ==
    /\ args.fn = "digitsOnly"
    /\ ret = [pending |-> TRUE]
    /\ ret' = [value |-> digitsOnly(StringOrEmpty(args.s))]
    /\ UNCHANGED <<args, dbVars>>

\* One evaluation of deriveNANPLrnPrefix(lookupData).
EvalDeriveNANPLrnPrefix ==
    /\ args.fn = "deriveNANPLrnPrefix"
    /\ ret = [pending |-> TRUE]
    /\ ret' = [value |-> deriveNANPLrnPrefix(args.lookupData)]
    /\ UNCHANGED <<args, dbVars>>

RateNext ==
    \/ EvalLongestPrefixRate
    \/ EvalCalculateRate
    \/ EvalDigitsOnly
    \/ EvalDeriveNANPLrnPrefix

SpecRate == RateInit /\ [][RateNext]_vars

(***************************************************************************)
(* Properties of the rate lookup                                           *)
(***************************************************************************)
\* The lengths, up to MAX_PREFIX_LEN, at which a table prefix matches digits.
MatchLens(prefixes, digits) ==
    {n \in 1..Min(Len(digits), MAX_PREFIX_LEN) :
        \E i \in 1..Len(prefixes) : prefixes[i] = SubSeq(digits, 1, n)}

SetMax(S) == CHOOSE x \in S : \A y \in S : y <= x

\* C10: for a table sorted ascending without duplicates, its aligned rates
\* and any digit string, longestPrefixRate returns the entry of the longest
\* table prefix of at most 15 digits that is a prefix of the digits, and null
\* when no table prefix matches at any length.
LongestMatchReturned ==
    (args.fn = "longestPrefixRate" /\ ret # [pending |-> TRUE]) =>
        LET m == MatchLens(args.prefixes, args.digits)
        IN  IF m = {} THEN ret.value = Null
            ELSE LET n == SetMax(m)
                     i == CHOOSE k \in 1..Len(args.prefixes) :
                                args.prefixes[k] = SubSeq(args.digits, 1, n)
                 IN  /\ ret.value # Null
                     /\ ret.value.prefix = args.prefixes[i]
                     /\ ret.value.rate_usd_per_min = [num |-> args.rates[i], den |-> 1000000]

\* C10 witness: a shorter table prefix also matches, and the longest one was
\* returned.
LongestMatchWitness ==
    /\ args.fn = "longestPrefixRate"
    /\ ret # [pending |-> TRUE]
    /\ Cardinality(MatchLens(args.prefixes, args.digits)) >= 2
    /\ ret.value # Null
    /\ Len(ret.value.prefix) = SetMax(MatchLens(args.prefixes, args.digits))

\* The table entry of the longest prefix of digits, or null.
LongestEntry(prefixes, rates, digits) ==
    LET m == MatchLens(prefixes, digits)
    IN  IF m = {} THEN Null
        ELSE LET i == CHOOSE k \in 1..Len(prefixes) :
                          prefixes[k] = SubSeq(digits, 1, SetMax(m))
             IN  [prefix |-> prefixes[i],
                  rate_usd_per_min |-> [num |-> rates[i], den |-> 1000000]]

\* C11: calculateRate bills the table entry of the LRN-derived prefix
\* whenever that prefix exists and has an entry, whatever the two rates are,
\* and the entry of the dialed digits only otherwise.
LrnMatchBilled ==
    (args.fn = "calculateRate" /\ ret # [pending |-> TRUE]) =>
        LET lrnPrefix == deriveNANPLrnPrefix(args.lookupData)
            lrnEntry == IF lrnPrefix = Null THEN Null
                        ELSE LongestEntry(args.prefixes, args.rates, lrnPrefix)
        IN  ret.value.billed =
                IF lrnEntry # Null THEN lrnEntry
                ELSE LongestEntry(args.prefixes, args.rates, args.dialedDigits)

\* C11 witness: the LRN entry was billed although the dialed entry is
\* another one with a lower rate.
LrnMatchBilledWitness ==
    /\ args.fn = "calculateRate"
    /\ ret # [pending |-> TRUE]
    /\ ret.value.lrnMatch # Null
    /\ ret.value.dialedMatch # Null
    /\ ret.value.lrnMatch.rate_usd_per_min.num > ret.value.dialedMatch.rate_usd_per_min.num
    /\ ret.value.billed = ret.value.lrnMatch

(***************************************************************************)
(* The credit quote, evaluated on its own                                  *)
(***************************************************************************)
\* Destination numbers: none, one without a digit (10 stands for "-"), one
\* in E.164 form (11 stands for "+") and two plain ones.
DestinationNumbers == {<<>>, <<10>>, <<11, 1, 2>>, <<1, 1>>, <<2>>}

\* What the lookup cache holds and what fetch() does.
CachedLookups == {Null, [country_code |-> "US", lrn |-> <<1, 1, 1, 1, 1, 1, 1, 1, 1, 1>>]}

FetchOutcomes ==
    {Thrown,
     Returned([ok |-> FALSE, data |-> Null]),
     Returned([ok |-> TRUE, data |-> Null]),
     Returned([ok |-> TRUE, data |-> [country_code |-> "US", lrn |-> <<>>]]),
     Returned([ok |-> TRUE, data |-> [country_code |-> "CA",
                                      lrn |-> <<2, 1, 1, 1, 1, 1, 1, 1, 1, 1>>]])}

\* Rate tables of the quote: empty or of one entry (longer tables are the
\* subject of the rate-table specification).
QuoteTables == {t \in SortedTables : Len(t) <= 1}

CreditsInit ==
    /\ NoDb
    /\ \E t \in QuoteTables, d \in DestinationNumbers, n \in 1..MaxQuotePages,
          k \in BOOLEAN, c \in CachedLookups, f \in FetchOutcomes :
         \E r \in [1..Len(t) -> 1..MaxRate] :
            args = [fn |-> "calculateFaxCredits", destinationNumber |-> d, pageCount |-> n,
                    hasApiKey |-> k, cached |-> c, fetched |-> f,
                    prefixes |-> t, rates |-> r]
    /\ ret = [pending |-> TRUE]

\* One evaluation of calculateFaxCredits.
EvalCalculateFaxCredits ==
    /\ args.fn = "calculateFaxCredits"
    /\ ret = [pending |-> TRUE]
    /\ ret' = calculateFaxCredits(args.destinationNumber, args.pageCount, args.hasApiKey,
                                  args.cached, args.fetched, args.prefixes, args.rates)
    /\ UNCHANGED <<args, dbVars>>

CreditsNext == EvalCalculateFaxCredits

SpecCredits == CreditsInit /\ [][CreditsNext]_vars

\* The lookup of the evaluated call fails: fetch throws or answers non-2xx
\* on a cache miss.
LookupFails == args.cached = Null /\ (args.fetched.throws \/ ~args.fetched.value.ok)

\* The lookup data of the evaluated call, when the lookup does not fail.
LookupValue == IF args.cached # Null THEN args.cached ELSE args.fetched.value.data

\* No table entry matches the LRN-derived prefix or the dialed digits.
NoRateEntry ==
    /\ LongestEntry(args.prefixes, args.rates, digitsOnly(args.destinationNumber)) = Null
    /\ LET lrnPrefix == deriveNANPLrnPrefix(LookupValue)
       IN  lrnPrefix = Null \/ LongestEntry(args.prefixes, args.rates, lrnPrefix) = Null

\* C12: calculateFaxCredits never throws, and returns creditsRequired =
\* pageCount * 1 when no API key is configured, the lookup fails or the
\* destination has no rate-table entry.
FailOpenDefault ==
    (args.fn = "calculateFaxCredits" /\ ret # [pending |-> TRUE]) =>
        /\ ~ret.throws
        /\ (\/ ~args.hasApiKey
            \/ LookupFails
            \/ (LookupValue # Null /\ NoRateEntry))
              => ret.value.creditsRequired = args.pageCount * 1

\* C12 witness: a 3-page fax was quoted 3 credits after the lookup failed
\* for a destination that has a rate-table entry.
FailOpenWitness ==
    /\ args.fn = "calculateFaxCredits"
    /\ ret # [pending |-> TRUE]
    /\ args.hasApiKey
    /\ digitsOnly(args.destinationNumber) # <<>>
    /\ LookupFails
    /\ LongestEntry(args.prefixes, args.rates, digitsOnly(args.destinationNumber)) # Null
    /\ args.pageCount = 3
    /\ ~ret.throws
    /\ ret.value.creditsRequired = 3

\* C13: creditsRequired is a non-negative integer, ceil(creditPerPage) *
\* pageCount, for every destination and page count, with or without a
\* rate-table match.
CreditsRequiredIsInteger ==
    (args.fn = "calculateFaxCredits" /\ ret # [pending |-> TRUE]) =>
        /\ ~ret.throws
        /\ ret.value.creditsRequired \in Nat
        /\ ret.value.creditPerPage \in Nat
        /\ ret.value.creditsRequired = ret.value.creditPerPage * args.pageCount

(***************************************************************************)
(* The credit functions of the database (plpgsql), run as READ COMMITTED   *)
(* transactions: a call sees the committed rows and its own writes, an     *)
(* UPDATE waits for the row lock of another call in flight, and the writes *)
(* of a call become visible to the others when it returns.                 *)
(***************************************************************************)
\* ORDER BY expires_at ASC, created_at ASC (rows are kept in created_at order)
OrderedBefore_created(rows, i, j) == i < j

OrderedBefore(rows, i, j) ==
    \/ rows[i].expires_at < rows[j].expires_at
    \/ rows[i].expires_at = rows[j].expires_at /\ i < j

\* IF available < p_amount THEN RETURN FALSE
Insufficient_never(available, p_amount) == FALSE

Insufficient(available, p_amount) == available < p_amount

\* The free_credits rows as the call of worker p sees them.
FreeRowsSeenBy(p) ==
    [i \in 1..Len(free_credits) |->
        IF inv[p].free_rows[i] # Null THEN inv[p].free_rows[i] ELSE free_credits[i]]

\* The user_subscriptions rows as the call of worker p sees them.
SubRowsSeenBy(p) ==
    [i \in 1..Len(user_subscriptions) |->
        IF inv[p].sub_rows[i] # Null THEN inv[p].sub_rows[i] ELSE user_subscriptions[i]]

\* The ledger entries the call of worker p sees: committed ones (xid 0) and
\* its own.
LedgerSeenBy(p) == SelectSeq(users_credit_ledger, LAMBDA e : e.xid \in {0, p})

\* WHERE user_id = p_user_id AND is_active = true AND expires_at > NOW()
\* AND credits_used < credit_limit
EligibleFreeRows(rows, u) ==
    {i \in 1..Len(rows) :
        /\ rows[i].user_id = u
        /\ rows[i].is_active
        /\ rows[i].expires_at > now
        /\ rows[i].credits_used < rows[i].credit_limit}

\* get_user_free_credits: COALESCE(SUM(credit_limit - credits_used), 0)
get_user_free_credits(rows, u) ==
    SumSeq([i \in 1..Len(rows) |->
              IF i \in EligibleFreeRows(rows, u) THEN rows[i].credit_limit - rows[i].credits_used
              ELSE 0])

\* get_user_credit_balance: balance_after of the user's last entry, else 0
get_user_credit_balance(ledger, u) ==
    LET mine == SelectSeq(ledger, LAMBDA e : e.user_id = u)
    IN  IF mine = <<>> THEN 0 ELSE mine[Len(mine)].balance_after

\* get_current_user_subscription: the newest active unexpired row, or 0 for
\* NOT FOUND
get_current_user_subscription(rows, u) ==
    LET active == {i \in 1..Len(rows) :
                      /\ rows[i].user_id = u
                      /\ rows[i].is_active
                      /\ (rows[i].expires_at = NULL \/ rows[i].expires_at > now)}
    IN  IF active = {} THEN 0 ELSE CHOOSE i \in active : \A j \in active : j <= i

\* The rows of the FOR loop's query, in its order.
RECURSIVE CursorRows(_, _)
CursorRows(rows, S) ==
    IF S = {} THEN <<>>
    ELSE LET first == CHOOSE i \in S : \A j \in S \ {i} : OrderedBefore(rows, i, j)
         IN  <<[id |-> first, credit_limit |-> rows[first].credit_limit,
                credits_used |-> rows[first].credits_used]>>
             \o CursorRows(rows, S \ {first})

\* A worker that runs no call, with no uncommitted write.
LedgerIdle ==
    [op |-> "idle", pc |-> "done", p_user_id |-> "", p_amount |-> 0,
     remaining_to_consume |-> 0, cursor |-> <<>>, current_subscription |-> 0,
     current_balance |-> 0,
     free_rows |-> [i \in 1..Len(free_credits) |-> Null],
     sub_rows |-> [i \in 1..Len(user_subscriptions) |-> Null]]

\* What a call returned: TRUE or FALSE, or the exception it raised.
Result(fn, p, p_amount, result) ==
    [fn |-> fn, proc |-> p, p_amount |-> p_amount, result |-> result]

FreeCredit(limit, used, expires) ==
    [user_id |-> "u1", type |-> "promotion", credit_limit |-> limit,
     credits_used |-> used, is_active |-> TRUE, expires_at |-> expires]

Subscription(limit, used) ==
    [user_id |-> "u1", product_id |-> "pro_monthly", credit_limit |-> limit,
     credits_used |-> used, is_active |-> TRUE, expires_at |-> NULL]

\* The tables before the first call, as <<free_credits, user_subscriptions>>:
\* two grants of 3 expiring on day 1 and day 2 and a subscription of 3; the
\* same grants with the later-created one expiring sooner, and no
\* subscription; two grants expiring the same day, a partly used one and an
\* expired one, with an older and a newer subscription.
LedgerStores ==
    {<<<<FreeCredit(3, 0, 1), FreeCredit(3, 0, 2)>>, <<Subscription(3, 0)>>>>,
     <<<<FreeCredit(3, 0, 2), FreeCredit(3, 0, 1)>>, <<>>>>,
     <<<<FreeCredit(3, 1, 1), FreeCredit(3, 0, 1), FreeCredit(3, 0, 0)>>,
       <<Subscription(3, 3), Subscription(3, 1)>>>>}

LedgerInit ==
    /\ now = 0
    /\ faxes = [f \in FaxIds |-> Null]
    /\ usage = <<>>
    /\ \E store \in LedgerStores :
         /\ free_credits = store[1]
         /\ user_subscriptions = store[2]
    /\ webhook_events = 0
    /\ unlogged = 0
    /\ creditsAdded = [f \in FaxIds |-> 0]
    /\ inv = [p \in Procs |-> LedgerIdle]
    /\ response = NoResponse
    /\ args = Null
    /\ ret = Null
    /\ users_credit_ledger = <<>>
    /\ NoEdgeStores

CallsInFlight == {q \in Procs : inv[q].op # "idle"}

\* Worker p can begin a call: it runs none, and the lower workers are busy.
CanCall(p) ==
    /\ inv[p].op = "idle"
    /\ \A q \in Procs : q < p => inv[q].op # "idle"
    /\ Len(users_credit_ledger) + Cardinality(CallsInFlight) < MaxLedger

\* RETURN FALSE before any write.
ReturnFalse(p, fn, p_amount) ==
    /\ ret' = Result(fn, p, p_amount, Returned(FALSE))
    /\ UNCHANGED inv

\* The call goes on with its next statement.
Proceed(p, fn, u, p_amount, pc, current) ==
    /\ inv' = [inv EXCEPT ![p] =
                 [LedgerIdle EXCEPT !.op = fn, !.pc = pc, !.p_user_id = u,
                                    !.p_amount = p_amount,
                                    !.remaining_to_consume = p_amount,
                                    !.current_subscription = current,
                                    !.current_balance = current]]
    /\ UNCHANGED ret

\* Another call in flight holds the lock of the row.
FreeRowLocked(p, i) == \E q \in Procs \ {p} : inv[q].free_rows[i] # Null

SubRowLocked(p, i) == \E q \in Procs \ {p} : inv[q].sub_rows[i] # Null

\* INSERT INTO users_credit_ledger, with the table's CHECK (amount > 0) and
\* CHECK (balance_after >= 0): the row is inserted, or the call raises and
\* its writes are rolled back.
InsertLedger(p, transaction_type, credit_source, balance_after) ==
    IF inv[p].p_amount > 0 /\ balance_after >= 0
    THEN /\ users_credit_ledger' = Append(users_credit_ledger,
              [user_id |-> inv[p].p_user_id, transaction_type |-> transaction_type,
               credit_source |-> credit_source, amount |-> inv[p].p_amount,
               balance_after |-> balance_after, xid |-> p])
         /\ inv' = [inv EXCEPT ![p].pc = "return"]
         /\ UNCHANGED ret
    ELSE /\ users_credit_ledger' = SelectSeq(users_credit_ledger, LAMBDA e : e.xid # p)
         /\ inv' = [inv EXCEPT ![p] = LedgerIdle]
         /\ ret' = Result(inv[p].op, p, inv[p].p_amount, Thrown)

LedgerFrame ==
    UNCHANGED <<now, faxes, usage, webhook_events, unlogged, creditsAdded, response, args,
                edgeVars>>

\* consume_free_credits: available_credits := get_user_free_credits and the
\* IF that follows.
ConsumeFreeCheck(p) ==
    /\ CanCall(p)
    /\ \E u \in Users, p_amount \in 1..MaxAmount :
         IF Insufficient(get_user_free_credits(FreeRowsSeenBy(p), u), p_amount)
         THEN ReturnFalse(p, "consume_free_credits", p_amount)
         ELSE Proceed(p, "consume_free_credits", u, p_amount, "cursor", 0)
    /\ LedgerFrame
    /\ UNCHANGED <<free_credits, user_subscriptions, users_credit_ledger>>

\* consume_free_credits: the query of the FOR loop.
ConsumeFreeOpenCursor(p) ==
    /\ inv[p].op = "consume_free_credits" /\ inv[p].pc = "cursor"
    /\ LET rows == CursorRows(FreeRowsSeenBy(p),
                              EligibleFreeRows(FreeRowsSeenBy(p), inv[p].p_user_id))
       IN  inv' = [inv EXCEPT ![p].cursor = rows,
                              ![p].pc = IF rows = <<>> THEN "insert" ELSE "loop"]
    /\ LedgerFrame
    /\ UNCHANGED <<free_credits, user_subscriptions, users_credit_ledger, ret>>

\* consume_free_credits: one pass of the loop, the UPDATE of the row at hand
\* by credits_to_use := LEAST(remaining_to_consume, credit_limit - credits_used).
ConsumeFreeUpdate(p) ==
    /\ inv[p].op = "consume_free_credits" /\ inv[p].pc = "loop"
    /\ LET credit_record == Head(inv[p].cursor)
           credits_to_use == Min(inv[p].remaining_to_consume,
                                 credit_record.credit_limit - credit_record.credits_used)
           row == FreeRowsSeenBy(p)[credit_record.id]
           remaining_to_consume == inv[p].remaining_to_consume - credits_to_use
       IN  /\ ~FreeRowLocked(p, credit_record.id)
           /\ inv' = [inv EXCEPT
                        ![p].free_rows[credit_record.id] =
                            [row EXCEPT !.credits_used = @ + credits_to_use],
                        ![p].remaining_to_consume = remaining_to_consume,
                        ![p].cursor = Tail(inv[p].cursor),
                        ![p].pc = IF remaining_to_consume <= 0 \/ Tail(inv[p].cursor) = <<>>
                                  THEN "insert" ELSE "loop"]
    /\ LedgerFrame
    /\ UNCHANGED <<free_credits, user_subscriptions, users_credit_ledger, ret>>

\* consume_free_credits: the ledger INSERT, balance_after =
\* get_user_free_credits(p_user_id).
ConsumeFreeInsert(p) ==
    /\ inv[p].op = "consume_free_credits" /\ inv[p].pc = "insert"
    /\ InsertLedger(p, "consume", "fax_send",
                    get_user_free_credits(FreeRowsSeenBy(p), inv[p].p_user_id))
    /\ LedgerFrame
    /\ UNCHANGED <<free_credits, user_subscriptions>>

\* consume_credits: current_balance := get_user_credit_balance and the IF.
ConsumeCreditsCheck(p) ==
    /\ CanCall(p)
    /\ \E u \in Users, p_amount \in 1..MaxAmount :
         LET current_balance == get_user_credit_balance(LedgerSeenBy(p), u)
         IN  IF Insufficient(current_balance, p_amount)
             THEN ReturnFalse(p, "consume_credits", p_amount)
             ELSE Proceed(p, "consume_credits", u, p_amount, "insert", current_balance)
    /\ LedgerFrame
    /\ UNCHANGED <<free_credits, user_subscriptions, users_credit_ledger>>

\* consume_credits: the INSERT of new_balance := current_balance - p_amount.
ConsumeCreditsInsert(p) ==
    /\ inv[p].op = "consume_credits" /\ inv[p].pc = "insert"
    /\ InsertLedger(p, "consume", "fax_send", inv[p].current_balance - inv[p].p_amount)
    /\ LedgerFrame
    /\ UNCHANGED <<free_credits, user_subscriptions>>

\* grant_credits: current_balance := get_user_credit_balance.
GrantCreditsRead(p) ==
    /\ CanCall(p)
    /\ \E u \in Users, p_amount \in 1..MaxGrant :
         Proceed(p, "grant_credits", u, p_amount, "grantInsert",
                 get_user_credit_balance(LedgerSeenBy(p), u))
    /\ LedgerFrame
    /\ UNCHANGED <<free_credits, user_subscriptions, users_credit_ledger>>

\* grant_credits, called directly or by reset_subscription_credits: the
\* INSERT of new_balance := current_balance + p_amount.
GrantCreditsInsert(p) ==
    /\ inv[p].op \in {"grant_credits", "reset_subscription_credits"}
    /\ inv[p].pc = "grantInsert"
    /\ InsertLedger(p, "grant",
                    IF inv[p].op = "grant_credits" THEN "onboarding" ELSE "subscription",
                    inv[p].current_balance + inv[p].p_amount)
    /\ LedgerFrame
    /\ UNCHANGED <<free_credits, user_subscriptions>>

\* consume_subscription_credits: the SELECT of the current subscription and
\* the two early returns.
ConsumeSubscriptionSelect(p) ==
    /\ CanCall(p)
    /\ \E u \in Users, p_amount \in 1..MaxAmount :
         LET current_subscription == get_current_user_subscription(SubRowsSeenBy(p), u)
         IN  IF current_subscription = 0
             THEN ReturnFalse(p, "consume_subscription_credits", p_amount)
             ELSE IF Insufficient(
                        user_subscriptions[current_subscription].credit_limit
                          - user_subscriptions[current_subscription].credits_used, p_amount)
             THEN ReturnFalse(p, "consume_subscription_credits", p_amount)
             ELSE Proceed(p, "consume_subscription_credits", u, p_amount, "update",
                          current_subscription)
    /\ LedgerFrame
    /\ UNCHANGED <<free_credits, user_subscriptions, users_credit_ledger>>

\* consume_subscription_credits: UPDATE ... SET credits_used = credits_used +
\* p_amount.
ConsumeSubscriptionUpdate(p) ==
    /\ inv[p].op = "consume_subscription_credits" /\ inv[p].pc = "update"
    /\ ~SubRowLocked(p, inv[p].current_subscription)
    /\ inv' = [inv EXCEPT
                 ![p].sub_rows[inv[p].current_subscription] =
                     [user_subscriptions[inv[p].current_subscription] EXCEPT
                        !.credits_used = @ + inv[p].p_amount],
                 ![p].pc = "insert"]
    /\ LedgerFrame
    /\ UNCHANGED <<free_credits, user_subscriptions, users_credit_ledger, ret>>

\* consume_subscription_credits: the INSERT, balance_after =
\* get_user_credit_balance(p_user_id) - p_amount.
ConsumeSubscriptionInsert(p) ==
    /\ inv[p].op = "consume_subscription_credits" /\ inv[p].pc = "insert"
    /\ InsertLedger(p, "consume", "subscription",
                    get_user_credit_balance(LedgerSeenBy(p), inv[p].p_user_id)
                      - inv[p].p_amount)
    /\ LedgerFrame
    /\ UNCHANGED <<free_credits, user_subscriptions>>

\* reset_subscription_credits: the SELECT of the current subscription.
ResetSubscriptionSelect(p) ==
    /\ CanCall(p)
    /\ \E u \in Users, p_new_credit_limit \in 1..MaxGrant :
         LET current_subscription == get_current_user_subscription(SubRowsSeenBy(p), u)
         IN  IF current_subscription = 0
             THEN ReturnFalse(p, "reset_subscription_credits", p_new_credit_limit)
             ELSE Proceed(p, "reset_subscription_credits", u, p_new_credit_limit, "update",
                          current_subscription)
    /\ LedgerFrame
    /\ UNCHANGED <<free_credits, user_subscriptions, users_credit_ledger>>

\* reset_subscription_credits: UPDATE ... SET credits_used = 0, credit_limit
\* = p_new_credit_limit.
ResetSubscriptionUpdate(p) ==
    /\ inv[p].op = "reset_subscription_credits" /\ inv[p].pc = "update"
    /\ ~SubRowLocked(p, inv[p].current_subscription)
    /\ inv' = [inv EXCEPT
                 ![p].sub_rows[inv[p].current_subscription] =
                     [user_subscriptions[inv[p].current_subscription] EXCEPT
                        !.credits_used = 0, !.credit_limit = inv[p].p_amount],
                 ![p].pc = "grantRead"]
    /\ LedgerFrame
    /\ UNCHANGED <<free_credits, user_subscriptions, users_credit_ledger, ret>>

\* reset_subscription_credits: PERFORM grant_credits, its read of the balance.
ResetSubscriptionGrantRead(p) ==
    /\ inv[p].op = "reset_subscription_credits" /\ inv[p].pc = "grantRead"
    /\ inv' = [inv EXCEPT
                 ![p].current_balance =
                     get_user_credit_balance(LedgerSeenBy(p), inv[p].p_user_id),
                 ![p].pc = "grantInsert"]
    /\ LedgerFrame
    /\ UNCHANGED <<free_credits, user_subscriptions, users_credit_ledger, ret>>

\* RETURN TRUE (grant_credits returns void): the call ends and its writes
\* are committed.
ReturnCommit(p) ==
    /\ inv[p].op # "idle" /\ inv[p].pc = "return"
    /\ free_credits' = FreeRowsSeenBy(p)
    /\ user_subscriptions' = SubRowsSeenBy(p)
    /\ users_credit_ledger' =
         [k \in 1..Len(users_credit_ledger) |->
            IF users_credit_ledger[k].xid = p
            THEN [users_credit_ledger[k] EXCEPT !.xid = 0] ELSE users_credit_ledger[k]]
    /\ inv' = [inv EXCEPT ![p] = LedgerIdle]
    /\ ret' = Result(inv[p].op, p, inv[p].p_amount, Returned(TRUE))
    /\ LedgerFrame

LedgerStep(p) ==
    \/ ConsumeFreeCheck(p)
    \/ ConsumeFreeOpenCursor(p)
    \/ ConsumeFreeUpdate(p)
    \/ ConsumeFreeInsert(p)
    \/ ConsumeCreditsCheck(p)
    \/ ConsumeCreditsInsert(p)
    \/ GrantCreditsRead(p)
    \/ GrantCreditsInsert(p)
    \/ ConsumeSubscriptionSelect(p)
    \/ ConsumeSubscriptionUpdate(p)
    \/ ConsumeSubscriptionInsert(p)
    \/ ResetSubscriptionSelect(p)
    \/ ResetSubscriptionUpdate(p)
    \/ ResetSubscriptionGrantRead(p)
    \/ ReturnCommit(p)

LedgerNext == \E p \in Procs : LedgerStep(p)

\* The calls of all workers, interleaved statement by statement.
SpecLedger == LedgerInit /\ [][LedgerNext]_vars

\* One call at a time.
LedgerNextSeq == LedgerStep(1)

SpecLedgerSeq == LedgerInit /\ [][LedgerNextSeq]_vars

(***************************************************************************)
(* Properties of the credit functions                                      *)
(***************************************************************************)
\* Worker p returns TRUE from fn in this step.
Commits(p, fn) == inv[p].op = fn /\ inv[p].pc = "return" /\ inv'[p].op = "idle"

\* The user's unexpired active free-credit rows that have credits left.
OpenFreeRows(u) ==
    {i \in 1..Len(free_credits) :
        /\ free_credits[i].user_id = u /\ free_credits[i].is_active
        /\ free_credits[i].expires_at > now
        /\ free_credits[i].credits_used < free_credits[i].credit_limit}

\* The credits left on them.
FreeAvailable(u) ==
    SumSeq([i \in 1..Len(free_credits) |->
              IF i \in OpenFreeRows(u)
              THEN free_credits[i].credit_limit - free_credits[i].credits_used ELSE 0])

\* C16: a consume_free_credits that runs alone takes its amount from the
\* user's open rows by soonest expiry, then creation order: a row is touched
\* only when every open row that expires sooner, or the same day and was
\* created earlier, is used up.
ConsumesSoonestExpiryFirst ==
    [][\A p \in Procs, u \in Users :
         (Commits(p, "consume_free_credits") /\ inv[p].p_user_id = u) =>
             /\ \A i \in 1..Len(free_credits) :
                   /\ free_credits'[i].credits_used >= free_credits[i].credits_used
                   /\ free_credits'[i].credits_used > free_credits[i].credits_used
                        => i \in OpenFreeRows(u)
             /\ \A i \in OpenFreeRows(u), j \in OpenFreeRows(u) :
                   (/\ \/ free_credits[i].expires_at < free_credits[j].expires_at
                       \/ /\ free_credits[i].expires_at = free_credits[j].expires_at
                          /\ i < j
                    /\ free_credits'[j].credits_used > free_credits[j].credits_used)
                   => free_credits'[i].credits_used = free_credits[i].credit_limit]_vars

\* C16 witness: of two unused grants of 3, the later-created one expiring
\* sooner, a single call that consumed 4 took 3 from the row that expires
\* sooner and 1 from the other.
SoonestExpiryWitness ==
    /\ Len(free_credits) = 2
    /\ free_credits[2].expires_at < free_credits[1].expires_at
    /\ free_credits[1].credit_limit = 3 /\ free_credits[2].credit_limit = 3
    /\ free_credits[2].credits_used = 3
    /\ free_credits[1].credits_used = 1
    /\ ret = Result("consume_free_credits", 1, 4, Returned(TRUE))
    /\ Len(users_credit_ledger) = 1

\* Worker p makes the attempt fn(p_amount) in this step: it goes on to the
\* statement after the check, or returns FALSE.
Attempts(p, fn, p_amount) ==
    /\ inv[p].op = "idle"
    /\ \/ inv'[p].op = fn /\ inv'[p].p_amount = p_amount
       \/ /\ inv'[p].op = "idle"
          /\ ret' # ret
          /\ ret' = Result(fn, p, p_amount, Returned(FALSE))

\* What the current subscription of the user has left, 0 without one.
SubscriptionAvailable(u) ==
    LET active == {i \in 1..Len(user_subscriptions) :
                      /\ user_subscriptions[i].user_id = u
                      /\ user_subscriptions[i].is_active
                      /\ (user_subscriptions[i].expires_at = NULL
                          \/ user_subscriptions[i].expires_at > now)}
    IN  IF active = {} THEN 0
        ELSE LET newest == CHOOSE i \in active : \A j \in active : j <= i
             IN  user_subscriptions[newest].credit_limit
                   - user_subscriptions[newest].credits_used

\* The committed entries of the ledger.
CommittedLedger == SelectSeq(users_credit_ledger, LAMBDA e : e.xid = 0)

\* balance_after of the last committed entry, 0 without one.
LedgerBalance(u) ==
    LET mine == SelectSeq(CommittedLedger, LAMBDA e : e.user_id = u)
    IN  IF mine = <<>> THEN 0 ELSE mine[Len(mine)].balance_after

\* The step returns FALSE to worker p and writes nothing.
RefusedWithoutWrite(p) ==
    /\ inv'[p].op = "idle"
    /\ ret'.result = Returned(FALSE)
    /\ free_credits' = free_credits
    /\ user_subscriptions' = user_subscriptions
    /\ users_credit_ledger' = users_credit_ledger

\* C17: a consume attempt for more than is available at the time of the
\* attempt returns FALSE, changes no free-credit or subscription row and
\* appends no ledger entry.
InsufficientBalanceRefused ==
    [][\A p \in Procs, u \in Users, p_amount \in 1..MaxAmount :
         /\ (Attempts(p, "consume_free_credits", p_amount) /\ p_amount > FreeAvailable(u))
               => RefusedWithoutWrite(p)
         /\ (Attempts(p, "consume_credits", p_amount) /\ p_amount > LedgerBalance(u))
               => RefusedWithoutWrite(p)
         /\ (Attempts(p, "consume_subscription_credits", p_amount)
               /\ p_amount > SubscriptionAvailable(u))
               => RefusedWithoutWrite(p)]_vars

\* C17 witness: after one call consumed 4 of the 6 free credits, a
\* consume_free_credits for 3 was refused with 2 credits still available.
InsufficientBalanceWitness ==
    /\ ret = Result("consume_free_credits", 1, 3, Returned(FALSE))
    /\ FreeAvailable("u1") = 2
    /\ Len(users_credit_ledger) = 1
    /\ \A p \in Procs : inv[p].op = "idle"

\* C18: concurrent consume_free_credits calls never push credits_used of a
\* row above its credit_limit, and together never consume more than the
\* free credits the user had.
FreeCreditsNeverOverdrawn ==
    \A i \in 1..Len(free_credits) :
        free_credits[i].credits_used <= free_credits[i].credit_limit

\* C19: when consume_free_credits(amount) returns TRUE, the user's available
\* free credits are lower by exactly amount, and balance_after of the ledger
\* entry of the call is that total.
ConsumeLowersByAmount ==
    [][\A p \in Procs, u \in Users :
         (Commits(p, "consume_free_credits") /\ inv[p].p_user_id = u) =>
             /\ FreeAvailable(u)' = FreeAvailable(u) - inv[p].p_amount
             /\ \A k \in 1..Len(users_credit_ledger) :
                   users_credit_ledger[k].xid = p =>
                       users_credit_ledger[k].balance_after = FreeAvailable(u)']_vars

\* balance_after of the committed entry before entry k of the same user, 0
\* for the first.
RECURSIVE PrecedingBalance(_, _)
PrecedingBalance(ledger, k) ==
    IF k = 1 THEN 0
    ELSE IF ledger[k - 1].user_id = ledger[k].user_id THEN ledger[k - 1].balance_after
    ELSE PrecedingBalance([ledger EXCEPT ![k - 1] = ledger[k]], k - 1)

\* C20: every ledger entry's balance_after is the preceding entry's
\* balance_after plus the amount of a grant or minus the amount of a
\* consume, and is never negative, whichever function appended it.
LedgerReplays ==
    \A k \in 1..Len(CommittedLedger) :
        LET e == CommittedLedger[k]
        IN  /\ e.balance_after >= 0
            /\ e.balance_after =
                 PrecedingBalance(CommittedLedger, k)
                   + (IF e.transaction_type = "grant" THEN e.amount ELSE 0 - e.amount)

\* C21: the step of grant_credits that writes the grant adds, besides the
\* grant ledger entry, a credit source for the granted amount: a new unused
\* free_credits row of that amount, or a subscription row changed, so that
\* what the user can spend rises by the amount.
GrantAddsSpendableSource ==
    [][\A p \in Procs :
         (inv[p].op = "grant_credits" /\ inv[p].pc = "grantInsert"
          /\ inv'[p].pc = "return")
         => /\ Len(users_credit_ledger') = Len(users_credit_ledger) + 1
            /\ \/ /\ Len(free_credits') = Len(free_credits) + 1
                  /\ free_credits'[Len(free_credits')].user_id = inv[p].p_user_id
                  /\ free_credits'[Len(free_credits')].credit_limit = inv[p].p_amount
                  /\ free_credits'[Len(free_credits')].credits_used = 0
               \/ user_subscriptions' # user_subscriptions]_vars

(***************************************************************************)
(* Properties of digitsOnly and deriveNANPLrnPrefix                        *)
(***************************************************************************)
\* The digit characters of s, in order.
DigitsOf(s) == SelectSeq(s, LAMBDA c : c \in 0..9)

\* d without its first two characters when both are "0".
WithoutLeading00(d) ==
    IF Len(d) >= 2 /\ d[1] = 0 /\ d[2] = 0 THEN [i \in 1..(Len(d) - 2) |-> d[i + 2]] ELSE d

Evaluated(fn) == args.fn = fn /\ ret # [pending |-> TRUE]

\* C29: for a string, null or undefined, digitsOnly returns a string of
\* digits only: the digits of the input in order, without the leading "00"
\* when they start with "00"; the empty string for null and undefined.
DigitsOnlyReturnsDigits ==
    Evaluated("digitsOnly") =>
        /\ \A i \in 1..Len(ret.value) : ret.value[i] \in 0..9
        /\ ret.value = IF args.s \in {Null, Undefined} THEN <<>>
                       ELSE WithoutLeading00(DigitsOf(args.s.chars))

\* C29 witness: "0-01" gave "1".
DigitsOnlyWitness ==
    /\ Evaluated("digitsOnly")
    /\ args.s = JsString(<<0, 10, 0, 1>>)
    /\ ret.value = <<1>>

\* C38: applying digitsOnly to its own result changes nothing, and so the
\* digits performTelnyxLookup takes from "+" followed by the dialed digits
\* ("+" is the character 10) are the dialed digits that are rated.
DigitsOnlyIdempotent ==
    Evaluated("digitsOnly") =>
        /\ digitsOnly(ret.value) = ret.value
        /\ digitsOnly(<<10>> \o ret.value) = ret.value

MaxFetches == 2         \* most requests made to the number lookup API

\* LOOKUP_TTL_SECONDS || 86400: one day of the clock.
ttl == 1

\* The numbers looked up; "+12" and "0012" have the same digits.
PhoneNumbers == {JsString(<<10, 1, 2>>), JsString(<<0, 0, 1, 2>>), JsString(<<2>>)}

\* dialedDigits, from which cacheKey and kvKey are built.
LookupKeys == {digitsOnly(StringOrEmpty(phoneE164)) : phoneE164 \in PhoneNumbers}

\* A stored value with its expirationTtl / max-age.
CacheEntry(data) == [value |-> data, expiration |-> now + ttl]

\* A store in which nothing is ever found.
Stored_none(store, key) == Null

\* LOOKUP_KV.get and cache.match: the value stored under the key, null when
\* there is none or it has expired.
Stored(store, key) ==
    IF store[key] # Null /\ now < store[key].expiration THEN store[key].value ELSE Null

\* json.data of the lookup API for a number.
LookupData(phoneE164) == [phone_number |-> phoneE164.chars]

LookupIdle ==
    [op |-> "idle", pc |-> "idle", phoneE164 |-> Null, dialedDigits |-> <<>>,
     lookupData |-> Null, consulted |-> <<>>, readFailed |-> {}, putFailed |-> {},
     seen |-> {}, fetch |-> 0]

\* env.LOOKUP_KV is bound to a namespace or not; both tiers start empty.
LookupInit ==
    /\ now = 0
    /\ faxes = [f \in FaxIds |-> Null]
    /\ usage = <<>>
    /\ user_subscriptions = <<>>
    /\ free_credits = <<>>
    /\ webhook_events = 0
    /\ unlogged = 0
    /\ creditsAdded = [f \in FaxIds |-> 0]
    /\ inv = [p \in Procs |-> LookupIdle]
    /\ response = NoResponse
    /\ args = Null
    /\ ret = Null
    /\ users_credit_ledger = <<>>
    /\ \E bound \in BOOLEAN :
         LOOKUP_KV = [bound |-> bound, entries |-> [k \in LookupKeys |-> Null]]
    /\ cache = [k \in LookupKeys |-> Null]
    /\ fetches = <<>>
    /\ rewarded_video_completions = <<>>
    /\ referral_invites = <<>>
    /\ profiles = <<>>

LookupFrame ==
    UNCHANGED <<now, faxes, usage, user_subscriptions, free_credits, webhook_events,
                unlogged, creditsAdded, response, args, users_credit_ledger,
                rewarded_video_completions, jobVars>>

LookupsInFlight == {q \in Procs : inv[q].op # "idle"}

\* The requests to the lookup API that were answered with data and whose
\* lookup has returned.
FetchesDone == {i \in 1..Len(fetches) : fetches[i].done /\ fetches[i].data # Null}

\* What performTelnyxLookup hands to its caller, with the tiers it consulted.
LookupResult(p, result, consulted, putFailed) ==
    [fn |-> "performTelnyxLookup", proc |-> p, phoneE164 |-> inv[p].phoneE164,
     result |-> result, consulted |-> consulted, lookupData |-> inv[p].lookupData,
     putFailed |-> putFailed, seen |-> inv[p].seen]

\* performTelnyxLookup up to its first await: the keys are built from
\* digitsOnly(StringOrEmpty(phoneE164)).
LookupBegin(p) ==
    /\ inv[p].op = "idle"
    /\ \A q \in Procs : q < p => inv[q].op # "idle"
    /\ Len(fetches) + Cardinality(LookupsInFlight) < MaxFetches
    /\ \E phoneE164 \in PhoneNumbers :
         inv' = [inv EXCEPT ![p] =
                   [LookupIdle EXCEPT !.op = "performTelnyxLookup",
                                      !.pc = IF LOOKUP_KV.bound THEN "kvGet" ELSE "cacheMatch",
                                      !.phoneE164 = phoneE164,
                                      !.dialedDigits = digitsOnly(StringOrEmpty(phoneE164)),
                                      !.seen = FetchesDone]]
    /\ UNCHANGED <<ret, LOOKUP_KV, cache, fetches>>
    /\ LookupFrame

\* A read of a tier that finds nothing (v is null) or fails: the next tier
\* is tried.
TierMisses(p, tier, next, v) ==
    /\ UNCHANGED <<ret, fetches>>
    /\ \/ /\ v = Null
          /\ inv' = [inv EXCEPT ![p].pc = next, ![p].consulted = Append(@, tier)]
       \/ inv' = [inv EXCEPT ![p].pc = next, ![p].consulted = Append(@, tier),
                             ![p].readFailed = @ \cup {tier}]

\* A read of a tier that gives a value: performTelnyxLookup returns it.
TierHits(p, tier, v) ==
    /\ inv' = [inv EXCEPT ![p] = LookupIdle]
    /\ ret' = LookupResult(p, Returned(v), Append(inv[p].consulted, tier), {})
    /\ UNCHANGED fetches

\* getCachedLookup: LOOKUP_KV.get(kvKey, "json") gives a value, which is
\* returned, or nothing, or fails; on the last two the Cache API is tried.
GetCachedLookupKV(p) ==
    /\ inv[p].op = "performTelnyxLookup" /\ inv[p].pc = "kvGet"
    /\ LET v == Stored(LOOKUP_KV.entries, inv[p].dialedDigits)
       IN  \/ v # Null /\ TierHits(p, "kv", v)
           \/ TierMisses(p, "kv", "cacheMatch", v)
    /\ UNCHANGED <<LOOKUP_KV, cache>>
    /\ LookupFrame

\* getCachedLookup: cache.match(cacheKey) gives a response, whose body is
\* returned, or nothing, or fails (null is returned).
GetCachedLookupCache(p) ==
    /\ inv[p].op = "performTelnyxLookup" /\ inv[p].pc = "cacheMatch"
    /\ LET r == Stored(cache, inv[p].dialedDigits)
       IN  \/ r # Null /\ TierHits(p, "cache", r)
           \/ TierMisses(p, "cache", "fetch", r)
    /\ UNCHANGED <<LOOKUP_KV, cache>>
    /\ LookupFrame

\* The request to the lookup API, as recorded in fetches.
Fetch(p, data, done) ==
    [proc |-> p, dialedDigits |-> inv[p].dialedDigits, at |-> now, data |-> data,
     done |-> done, stored |-> {}, seen |-> inv[p].seen, readFailed |-> inv[p].readFailed]

\* fetch of the lookup API: a response that is not ok throws, one without
\* data returns null, and data goes on to putCachedLookup.
LookupFetch(p) ==
    /\ inv[p].op = "performTelnyxLookup" /\ inv[p].pc = "fetch"
    /\ LET consulted == Append(inv[p].consulted, "api")
           lookupData == LookupData(inv[p].phoneE164)
       IN  \/ /\ fetches' = Append(fetches, Fetch(p, Null, TRUE))
              /\ inv' = [inv EXCEPT ![p] = LookupIdle]
              /\ ret' = LookupResult(p, Thrown, consulted, {})
           \/ /\ fetches' = Append(fetches, Fetch(p, Null, TRUE))
              /\ inv' = [inv EXCEPT ![p] = LookupIdle]
              /\ ret' = LookupResult(p, Returned(Null), consulted, {})
           \/ /\ fetches' = Append(fetches, Fetch(p, lookupData, FALSE))
              /\ inv' = [inv EXCEPT ![p].pc = IF LOOKUP_KV.bound THEN "kvPut" ELSE "cachePut",
                                    ![p].consulted = consulted,
                                    ![p].lookupData = lookupData,
                                    ![p].fetch = Len(fetches) + 1]
              /\ UNCHANGED ret
    /\ UNCHANGED <<LOOKUP_KV, cache>>
    /\ LookupFrame

\* putCachedLookup in which a failure of LOOKUP_KV.put is thrown on.
PutCachedLookupKV_rethrow(p) ==
    /\ inv[p].op = "performTelnyxLookup" /\ inv[p].pc = "kvPut"
    /\ \/ /\ LOOKUP_KV' = [LOOKUP_KV EXCEPT !.entries[inv[p].dialedDigits] =
                                               CacheEntry(inv[p].lookupData)]
          /\ fetches' = [fetches EXCEPT ![inv[p].fetch].stored = @ \cup {"kv"}]
          /\ inv' = [inv EXCEPT ![p].pc = "cachePut"]
          /\ UNCHANGED ret
       \/ /\ inv' = [inv EXCEPT ![p] = LookupIdle]
          /\ ret' = LookupResult(p, Thrown, inv[p].consulted, {"kv"})
          /\ fetches' = [fetches EXCEPT ![inv[p].fetch].done = TRUE]
          /\ UNCHANGED LOOKUP_KV
    /\ UNCHANGED cache
    /\ LookupFrame

\* putCachedLookup: LOOKUP_KV.put(kvKey, data, {expirationTtl: ttl}) inside
\* try/catch; a failure is logged.
PutCachedLookupKV(p) ==
    /\ inv[p].op = "performTelnyxLookup" /\ inv[p].pc = "kvPut"
    /\ \/ /\ LOOKUP_KV' = [LOOKUP_KV EXCEPT !.entries[inv[p].dialedDigits] =
                                               CacheEntry(inv[p].lookupData)]
          /\ fetches' = [fetches EXCEPT ![inv[p].fetch].stored = @ \cup {"kv"}]
          /\ inv' = [inv EXCEPT ![p].pc = "cachePut"]
       \/ /\ inv' = [inv EXCEPT ![p].pc = "cachePut", ![p].putFailed = @ \cup {"kv"}]
          /\ UNCHANGED <<LOOKUP_KV, fetches>>
    /\ UNCHANGED <<ret, cache>>
    /\ LookupFrame

\* putCachedLookup: cache.put(cacheKey, response) with max-age ttl inside
\* try/catch; then performTelnyxLookup returns lookupData.
PutCachedLookupCache(p) ==
    /\ inv[p].op = "performTelnyxLookup" /\ inv[p].pc = "cachePut"
    /\ \/ /\ cache' = [cache EXCEPT ![inv[p].dialedDigits] = CacheEntry(inv[p].lookupData)]
          /\ fetches' = [fetches EXCEPT ![inv[p].fetch].stored = @ \cup {"cache"},
                                        ![inv[p].fetch].done = TRUE]
          /\ ret' = LookupResult(p, Returned(inv[p].lookupData), inv[p].consulted,
                                 inv[p].putFailed)
       \/ /\ fetches' = [fetches EXCEPT ![inv[p].fetch].done = TRUE]
          /\ ret' = LookupResult(p, Returned(inv[p].lookupData), inv[p].consulted,
                                 inv[p].putFailed \cup {"cache"})
          /\ UNCHANGED cache
    /\ inv' = [inv EXCEPT ![p] = LookupIdle]
    /\ UNCHANGED LOOKUP_KV
    /\ LookupFrame

LookupNext ==
    \/ Tick
    \/ \E p \in Procs :
        \/ LookupBegin(p)
        \/ GetCachedLookupKV(p)
        \/ GetCachedLookupCache(p)
        \/ LookupFetch(p)
        \/ PutCachedLookupKV(p)
        \/ PutCachedLookupCache(p)

SpecLookup == LookupInit /\ [][LookupNext]_vars

\* A finished lookup that asked the API and got data for the number.
LookupFetched == ret # Null /\ ret.fn = "performTelnyxLookup" /\ ret.lookupData # Null

\* C27: whether or not the writes to LOOKUP_KV and to the Cache API fail, a
\* lookup that fetched data from the API returns that data to its caller.
PutFailureNotPropagated == LookupFetched => ret.result = Returned(ret.lookupData)

\* A lookup returned its data after both writes had failed.
PutFailureWitness ==
    /\ LookupFetched
    /\ ret.putFailed = {"kv", "cache"}
    /\ ret.result = Returned(ret.lookupData)

\* Request j to the API was made by a lookup that began after request i, for
\* the same digits, had brought data, and within the TTL of request i.
RepeatsWithinTtl(j, i) ==
    /\ i \in fetches[j].seen
    /\ fetches[i].dialedDigits = fetches[j].dialedDigits
    /\ fetches[j].at < fetches[i].at + ttl

\* C26 as stated: every lookup consults LOOKUP_KV first, then the Cache API,
\* then the lookup API; and once the API has answered a lookup with data, no
\* later lookup of the same digits within the TTL asks the API again.
RepeatedLookupNeverFetches ==
    /\ (ret # Null /\ ret.fn = "performTelnyxLookup") =>
          ret.consulted \in {<<"kv">>, <<"kv", "cache">>, <<"kv", "cache", "api">>}
    /\ \A j \in 1..Len(fetches), i \in 1..Len(fetches) : ~RepeatsWithinTtl(j, i)

\* C26: a lookup consults LOOKUP_KV first when a namespace is bound, then the
\* Cache API, then the lookup API; and once the API has answered a lookup
\* with data that was written to a tier, a later lookup of the same digits
\* within the TTL whose read of that tier does not fail is served from the
\* cache and does not ask the API.
CachedLookupNotFetchedAgain ==
    /\ (ret # Null /\ ret.fn = "performTelnyxLookup") =>
          ret.consulted \in
             IF LOOKUP_KV.bound
             THEN {<<"kv">>, <<"kv", "cache">>, <<"kv", "cache", "api">>}
             ELSE {<<"cache">>, <<"cache", "api">>}
    /\ \A j \in 1..Len(fetches), i \in 1..Len(fetches) :
          RepeatsWithinTtl(j, i) => fetches[i].stored \subseteq fetches[j].readFailed

\* A lookup was served from a tier with what an earlier lookup of another
\* spelling of the same digits had fetched.
CachedLookupWitness ==
    /\ ret # Null /\ ret.fn = "performTelnyxLookup"
    /\ ret.consulted \in {<<"kv">>, <<"kv", "cache">>, <<"cache">>}
    /\ ret.result = Returned(LookupData(JsString(<<10, 1, 2>>)))
    /\ ret.phoneE164 = JsString(<<0, 0, 1, 2>>)
    /\ \E i \in ret.seen : fetches[i].dialedDigits = <<1, 2>>

(***************************************************************************)
(* The AdMob server-side verification callback: ssvCallback of admob.js    *)
(* with checkTransactionExists and recordRewardedVideoCompletion of        *)
(* database.js, one step for each request to the database.                 *)
(***************************************************************************)
MaxTransactions == 2    \* distinct transaction_id values of the callbacks

\* if (completionCount >= 15)
MONTHLY_CAP == 15

TransactionIds == 1..MaxTransactions

\* reward_amount as parsed: 0 when it is missing.
RewardAmounts == {0, 2}

\* toISOString().substring(0, 7) of a day of the clock.
MonthOf(day) == day \div 30

\* Completions the user already has this month, under tokens of their own.
PriorCompletions(n) ==
    [i \in 1..n |-> [user_id |-> "u1", completion_token |-> 100 + i,
                     pages_granted |-> 1, month_year |-> 0]]

AdmobIdle ==
    [op |-> "idle", pc |-> "idle", transactionId |-> NULL, userId |-> "",
     rewardAmount |-> 0, signature |-> ""]

\* The JSON body of the response, always sent with status 200.
SsvResponse(p, success, error, duplicate) ==
    [op |-> "ssvCallback", statusCode |-> 200, proc |-> p, success |-> success,
     error |-> error, duplicate |-> duplicate, transactionId |-> inv[p].transactionId]

AdmobInit ==
    /\ now = 0
    /\ faxes = [f \in FaxIds |-> Null]
    /\ usage = <<>>
    /\ user_subscriptions = <<>>
    /\ free_credits = <<>>
    /\ webhook_events = 0
    /\ unlogged = 0
    /\ creditsAdded = [f \in FaxIds |-> 0]
    /\ inv = [p \in Procs |-> AdmobIdle]
    /\ response = NoResponse
    /\ args = Null
    /\ ret = Null
    /\ users_credit_ledger = <<>>
    /\ LOOKUP_KV = <<>>
    /\ cache = <<>>
    /\ fetches = <<>>
    /\ \E n \in {0, MONTHLY_CAP - 1} : rewarded_video_completions = PriorCompletions(n)
    /\ referral_invites = <<>>
    /\ profiles = <<>>

AdmobFrame ==
    UNCHANGED <<now, faxes, usage, user_subscriptions, free_credits, webhook_events,
                unlogged, creditsAdded, args, ret, LOOKUP_KV, cache, fetches, jobVars>>

\* The handler returns its response.
SsvReturns(p, success, error, duplicate) ==
    /\ response' = SsvResponse(p, success, error, duplicate)
    /\ inv' = [inv EXCEPT ![p] = AdmobIdle]

\* The rows recorded under a completion_token.
CompletionsOf(t) ==
    {i \in 1..Len(rewarded_video_completions) :
        rewarded_video_completions[i].completion_token = t}

\* ssvCallback up to the answer of checkTransactionExists: a callback without
\* transaction_id or user_id is not processed, one whose transaction is
\* found is answered 'Already processed', and a failed query is caught.
SsvReceive(p) ==
    /\ inv[p].op = "idle"
    /\ \A q \in Procs : q < p => inv[q].op # "idle"
    /\ \E transactionId \in TransactionIds \cup {NULL}, userId \in Users \cup {""},
          rewardAmount \in RewardAmounts :
         LET params == [AdmobIdle EXCEPT !.op = "ssvCallback", !.pc = "verify",
                                         !.transactionId = transactionId,
                                         !.userId = userId,
                                         !.rewardAmount = rewardAmount]
             answer(success, error) ==
                 /\ response' = [SsvResponse(p, success, error, FALSE)
                                   EXCEPT !.transactionId = transactionId]
                 /\ UNCHANGED inv
         IN  IF transactionId = NULL THEN answer(FALSE, "Missing transaction_id")
             ELSE IF userId = "" THEN answer(FALSE, "Missing user_id")
             ELSE \/ CompletionsOf(transactionId) # {} /\ answer(TRUE, "Already processed")
                  \/ answer(FALSE, "Internal server error")
                  \/ /\ CompletionsOf(transactionId) = {}
                     /\ inv' = [inv EXCEPT ![p] = params]
                     /\ UNCHANGED response
    /\ UNCHANGED <<users_credit_ledger, rewarded_video_completions>>
    /\ AdmobFrame

\* What verifyAdMobCallback finds in the callback.
Signatures == {"valid", "invalid"}

\* The callback goes on to recordRewardedVideoCompletion.
SsvProceeds(p, signature) ==
    /\ inv' = [inv EXCEPT ![p].pc = "count", ![p].signature = signature]
    /\ UNCHANGED response

\* A handler whose catch around verifyAdMobCallback logs and goes on.
SsvVerify_logOnly(p) ==
    /\ inv[p].op = "ssvCallback" /\ inv[p].pc = "verify"
    /\ \E ADMOB_SKIP_VERIFICATION \in BOOLEAN, signature \in Signatures :
         IF ADMOB_SKIP_VERIFICATION THEN SsvProceeds(p, "skipped")
         ELSE SsvProceeds(p, signature)
    /\ UNCHANGED <<users_credit_ledger, rewarded_video_completions>>
    /\ AdmobFrame

\* verifyAdMobCallback, unless ADMOB_SKIP_VERIFICATION is set: a callback
\* whose signature does not verify is not processed.
SsvVerify(p) ==
    /\ inv[p].op = "ssvCallback" /\ inv[p].pc = "verify"
    /\ \E ADMOB_SKIP_VERIFICATION \in BOOLEAN, signature \in Signatures :
         IF ADMOB_SKIP_VERIFICATION THEN SsvProceeds(p, "skipped")
         ELSE IF signature = "valid" THEN SsvProceeds(p, "valid")
         ELSE SsvReturns(p, FALSE, "Invalid signature", FALSE)
    /\ UNCHANGED <<users_credit_ledger, rewarded_video_completions>>
    /\ AdmobFrame

\* recordRewardedVideoCompletion: the count of the user's completions of the
\* month and the cap.
SsvCountMonth(p) ==
    /\ inv[p].op = "ssvCallback" /\ inv[p].pc = "count"
    /\ LET monthlyCount == {i \in 1..Len(rewarded_video_completions) :
                              /\ rewarded_video_completions[i].user_id = inv[p].userId
                              /\ rewarded_video_completions[i].month_year = MonthOf(now)}
       IN  \/ SsvReturns(p, FALSE, "Internal server error", FALSE)
           \/ IF Cardinality(monthlyCount) >= MONTHLY_CAP
              THEN SsvReturns(p, FALSE, "Monthly reward cap reached", FALSE)
              ELSE inv' = [inv EXCEPT ![p].pc = "insert"] /\ UNCHANGED response
    /\ UNCHANGED <<users_credit_ledger, rewarded_video_completions>>
    /\ AdmobFrame

\* The completion row of the callback.
Completion(p) ==
    [user_id |-> inv[p].userId, completion_token |-> inv[p].transactionId,
     pages_granted |-> Or(inv[p].rewardAmount, 1), month_year |-> MonthOf(now)]

\* The insert into a table without the UNIQUE constraint on completion_token.
SsvInsert_noUnique(p) ==
    /\ inv[p].op = "ssvCallback" /\ inv[p].pc = "insert"
    /\ \/ /\ rewarded_video_completions' = Append(rewarded_video_completions, Completion(p))
          /\ inv' = [inv EXCEPT ![p].pc = "grant"]
          /\ UNCHANGED response
       \/ /\ SsvReturns(p, FALSE, "Internal server error", FALSE)
          /\ UNCHANGED rewarded_video_completions
    /\ UNCHANGED users_credit_ledger
    /\ AdmobFrame

\* recordRewardedVideoCompletion: the insert of the completion row.
\* completion_token is UNIQUE: a second row of the token is refused with
\* 23505 and the callback answered as a duplicate; another error is thrown.
SsvInsert(p) ==
    /\ inv[p].op = "ssvCallback" /\ inv[p].pc = "insert"
    /\ \/ /\ CompletionsOf(inv[p].transactionId) = {}
          /\ rewarded_video_completions' = Append(rewarded_video_completions, Completion(p))
          /\ inv' = [inv EXCEPT ![p].pc = "grant"]
          /\ UNCHANGED response
       \/ /\ CompletionsOf(inv[p].transactionId) # {}
          /\ SsvReturns(p, TRUE, "", TRUE)
          /\ UNCHANGED rewarded_video_completions
       \/ /\ SsvReturns(p, FALSE, "Internal server error", FALSE)
          /\ UNCHANGED rewarded_video_completions
    /\ UNCHANGED users_credit_ledger
    /\ AdmobFrame

\* recordRewardedVideoCompletion: rpc('grant_credits') with p_source
\* 'rewarded_video'; the rpc inserts the grant into the ledger, or fails,
\* which is logged. Either way the callback is answered with success.
SsvGrant(p) ==
    /\ inv[p].op = "ssvCallback" /\ inv[p].pc = "grant"
    /\ LET p_amount == Or(inv[p].rewardAmount, 1)
           current_balance == get_user_credit_balance(users_credit_ledger, inv[p].userId)
       IN  \/ users_credit_ledger' =
                Append(users_credit_ledger,
                       [user_id |-> inv[p].userId, xid |-> 0,
                        transaction_type |-> "grant", credit_source |-> "rewarded_video",
                        amount |-> p_amount, balance_after |-> current_balance + p_amount,
                        transaction_id |-> inv[p].transactionId])
           \/ UNCHANGED users_credit_ledger
    /\ SsvReturns(p, TRUE, "", FALSE)
    /\ UNCHANGED rewarded_video_completions
    /\ AdmobFrame

AdmobNext ==
    \/ Tick
    \/ \E p \in Procs :
        \/ SsvReceive(p)
        \/ SsvVerify(p)
        \/ SsvCountMonth(p)
        \/ SsvInsert(p)
        \/ SsvGrant(p)

SpecAdmob == AdmobInit /\ [][AdmobNext]_vars

\* The grants the ledger holds for a transaction_id.
GrantsOf(t) ==
    {k \in 1..Len(users_credit_ledger) : users_credit_ledger[k].transaction_id = t}

\* C30: whatever callbacks arrive and however they interleave, a
\* transaction_id has at most one completion row and at most one grant.
OneCompletionPerTransaction ==
    \A t \in TransactionIds :
        /\ Cardinality(CompletionsOf(t)) <= 1
        /\ Cardinality(GrantsOf(t)) <= 1

\* A callback that passed checkTransactionExists was refused by the UNIQUE
\* constraint, the transaction having been recorded and granted meanwhile.
DuplicateCallbackWitness ==
    /\ response.op = "ssvCallback" /\ response.duplicate
    /\ Cardinality(CompletionsOf(response.transactionId)) = 1
    /\ Cardinality(GrantsOf(response.transactionId)) = 1

\* C31: with signature verification enabled, a callback whose signature
\* fails is answered 'Invalid signature' with no completion row and no
\* grant written, and every row and grant written comes from a callback
\* whose signature verified or whose verification was switched off.
InvalidSignatureRecordsNothing ==
    [][/\ (response' # response /\ response'.op = "ssvCallback"
           /\ response'.error = "Invalid signature")
          => UNCHANGED <<rewarded_video_completions, users_credit_ledger>>
       /\ \A p \in Procs :
            (inv'[p] # inv[p]
             /\ <<rewarded_video_completions, users_credit_ledger>>'
                  # <<rewarded_video_completions, users_credit_ledger>>)
            => inv[p].signature \in {"valid", "skipped"}]_vars

\* A callback was refused for its signature and its transaction has neither
\* a completion row nor a grant, while another transaction was rewarded.
InvalidSignatureWitness ==
    /\ response.op = "ssvCallback" /\ response.error = "Invalid signature"
    /\ CompletionsOf(response.transactionId) = {}
    /\ GrantsOf(response.transactionId) = {}
    /\ \E t \in TransactionIds : GrantsOf(t) # {}

\* C32: a user never has more than MONTHLY_CAP completions recorded in one
\* month, however the callbacks interleave.
MonthlyCapNeverExceeded ==
    \A u \in Users, month \in 0..MonthOf(MaxNow) :
        Cardinality({i \in 1..Len(rewarded_video_completions) :
                       /\ rewarded_video_completions[i].user_id = u
                       /\ rewarded_video_completions[i].month_year = month})
            <= MONTHLY_CAP


(***************************************************************************)
(* Properties of the fax row after submission                              *)
(***************************************************************************)
\* C34: once a fax is saved, no callback and no status poll changes the cost
\* stored at submission.
CostNeverChanges ==
    [][\A f \in FaxIds :
         (faxes[f] # Null /\ faxes'[f] # Null) => faxes'[f].cost = faxes[f].cost]_vars


\* C39: a push notification is attempted only for a callback whose status
\* is delivered or failed, and when it is not sent (skipped, failed,
\* misconfigured or thrown) the callback is still answered 200 with no
\* error, the usage rows are left as the accrual wrote them, and a fax row
\* the step writes carries the status of the callback.
PushNeverChangesWebhook ==
    [][  (response' # response /\ response'.op \in WebhookOps
          /\ response'.push.outcome # "none")
         => /\ response'.push.status \in {"delivered", "failed"}
            /\ response'.statusCode = 200 /\ response'.error = ""
            /\ usage' = usage
            /\ \A f \in FaxIds :
                 faxes'[f] # faxes[f] => faxes'[f].status = response'.push.status]_vars

\* A delivered callback was answered 200 after its notification was not sent.
PushFailedWitness ==
    /\ response.op \in WebhookOps
    /\ response.push = [outcome |-> "notSent", status |-> "delivered"]
    /\ response.statusCode = 200
    /\ ~response.ledgerError
    /\ usage # <<>>


(***************************************************************************)
(* Properties of create_freemium_subscription_for_user                     *)
(***************************************************************************)
\* A subscription of the user before the backfill.
BackfillSubscription(is_active, expires) ==
    [PaidSubscription(expires) EXCEPT !.is_active = is_active]

\* The user_subscriptions tables the backfill finds: up to MaxSubscriptions
\* rows, active or not, expiring on day 1 or never.
BackfillRows ==
    {BackfillSubscription(is_active, expires) : is_active \in BOOLEAN, expires \in {1, NULL}}

BackfillTables ==
    UNION {[1..n -> BackfillRows] : n \in 0..MaxSubscriptions}

FreemiumInit ==
    /\ now = 0
    /\ faxes = [f \in FaxIds |-> Null]
    /\ usage = <<>>
    /\ user_subscriptions \in BackfillTables
    /\ free_credits = <<>>
    /\ webhook_events = 0
    /\ unlogged = 0
    /\ creditsAdded = [f \in FaxIds |-> 0]
    /\ inv = [p \in Procs |-> Idle]
    /\ response = NoResponse
    /\ args = Null
    /\ ret = Null
    /\ users_credit_ledger = <<>>
    /\ NoEdgeStores

FreemiumFrame ==
    UNCHANGED <<now, faxes, usage, free_credits, webhook_events, unlogged, creditsAdded,
                response, args, users_credit_ledger, edgeVars>>

\* The backfill of 20250139000000, or any other caller of the rpc: PERFORM
\* create_freemium_subscription_for_user(user_record.id), up to the count.
BackfillCount(p) ==
    /\ Free(p)
    /\ \E u \in Users :
         inv' = [inv EXCEPT ![p] = [Idle EXCEPT !.op = "backfill", !.user_id = u,
                                                !.existing_count = existing_count(u),
                                                !.pc = "freemiumInsert"]]
    /\ UNCHANGED <<user_subscriptions, ret>>
    /\ FreemiumFrame

\* The IF existing_count = 0 of the function and what it returns.
BackfillInsert(p) ==
    /\ inv[p].op = "backfill" /\ inv[p].pc = "freemiumInsert"
    /\ IF inv[p].existing_count = 0
       THEN /\ user_subscriptions' = Append(user_subscriptions, FreemiumRow(inv[p].user_id))
            /\ ret' = [user_id |-> inv[p].user_id, created |-> TRUE]
       ELSE /\ UNCHANGED user_subscriptions
            /\ ret' = [user_id |-> inv[p].user_id, created |-> FALSE]
    /\ inv' = [inv EXCEPT ![p] = Idle]
    /\ FreemiumFrame

FreemiumNext ==
    \/ Tick
    \/ \E p \in Procs :
        \/ BackfillCount(p)
        \/ BackfillInsert(p)

SpecFreemium == FreemiumInit /\ [][FreemiumNext]_vars

\* C35: the count create_freemium_subscription_for_user takes is 0, and so
\* a freemium row is inserted, only if the user has no active subscription,
\* a subscription with is_active and no expires_at being active.
FreemiumOnlyWithoutActiveSubscription ==
    [][\A p \in Procs :
         (inv[p].pc # "freemiumInsert" /\ inv'[p].pc = "freemiumInsert")
         => (inv'[p].existing_count = 0 <=> ActiveSubscriptions(inv'[p].user_id) = {})]_vars


(***************************************************************************)
(* handleMonthlyCreditReset: the cron job of the annual subscriptions      *)
(***************************************************************************)
DaysInMonth == 30

\* product_id.ilike.%annual% or %yearly% or %year%
AnnualProducts == {"pro_annual"}

ResetProducts == AnnualProducts \cup {"pro_monthly"}

\* A subscription of the user before the job runs: annual or monthly, its
\* billing period ending on day 0 or after the last day of the clock, with a
\* credit_limit of its own and one credit used.
BilledSubscription(product_id, credit_limit, billing_period_end) ==
    [user_id |-> "u1", product_id |-> product_id, credit_limit |-> credit_limit,
     credits_used |-> 1, is_active |-> TRUE, expires_at |-> NULL,
     billing_period_end |-> billing_period_end]

BilledRows ==
    {BilledSubscription(product_id, credit_limit, billing_period_end) :
        product_id \in ResetProducts, credit_limit \in 1..MaxGrant,
        billing_period_end \in {0, MaxNow + 1}}

ResetTables == UNION {[1..n -> BilledRows] : n \in 0..MaxSubscriptions}

ResetIdle == [op |-> "idle", pc |-> "done", expiredBillingPeriods |-> <<>>]

ResetInit ==
    /\ now = 0
    /\ faxes = [f \in FaxIds |-> Null]
    /\ usage = <<>>
    /\ user_subscriptions \in ResetTables
    /\ free_credits = <<>>
    /\ webhook_events = 0
    /\ unlogged = 0
    /\ creditsAdded = [f \in FaxIds |-> 0]
    /\ inv = [p \in Procs |-> ResetIdle]
    /\ response = NoResponse
    /\ args = Null
    /\ ret = Null
    /\ users_credit_ledger = <<>>
    /\ NoEdgeStores

ResetFrame ==
    UNCHANGED <<now, faxes, usage, free_credits, webhook_events, unlogged, creditsAdded,
                response, args, edgeVars>>

\* The rows the job's select returns: is_active, billing_period_end not null
\* and <= today, product_id of an annual product.
ExpiredBillingPeriodIds ==
    {i \in 1..Len(user_subscriptions) :
        /\ user_subscriptions[i].is_active
        /\ user_subscriptions[i].billing_period_end # NULL
        /\ user_subscriptions[i].billing_period_end <= now
        /\ user_subscriptions[i].product_id \in AnnualProducts}

\* The selected rows as the job holds them, in id order.
RECURSIVE ExpiredBillingPeriods(_)
ExpiredBillingPeriods(S) ==
    IF S = {} THEN <<>>
    ELSE LET i == CHOOSE k \in S : \A j \in S : k <= j
         IN  <<[id |-> i, user_id |-> user_subscriptions[i].user_id,
                credit_limit |-> user_subscriptions[i].credit_limit,
                billing_period_end |-> user_subscriptions[i].billing_period_end]>>
             \o ExpiredBillingPeriods(S \ {i})

\* handleMonthlyCreditReset up to the answer of its select; with no row, or
\* with a failed select, the job returns.
ResetFetch(p) ==
    /\ inv[p].op = "idle"
    /\ \A q \in Procs : q < p => inv[q].op # "idle"
    /\ Len(users_credit_ledger) < MaxLedger
    /\ \/ /\ ExpiredBillingPeriodIds # {}
          /\ inv' = [inv EXCEPT ![p] =
                       [op |-> "handleMonthlyCreditReset", pc |-> "rpc",
                        expiredBillingPeriods |-> ExpiredBillingPeriods(ExpiredBillingPeriodIds)]]
          /\ ret' = Null
       \/ /\ ret' = [fn |-> "handleMonthlyCreditReset", subscription |-> 0, result |-> "returned"]
          /\ UNCHANGED inv
    /\ UNCHANGED <<user_subscriptions, users_credit_ledger>>
    /\ ResetFrame

\* reset_subscription_credits as one call: the UPDATE of the user's current
\* subscription and the grant in the ledger.
reset_subscription_credits(p_user_id, p_new_credit_limit, p_billing_end) ==
    LET current_subscription == get_current_user_subscription(user_subscriptions, p_user_id)
    IN  IF current_subscription = 0
        THEN UNCHANGED <<user_subscriptions, users_credit_ledger>>
        ELSE /\ user_subscriptions' =
                  [user_subscriptions EXCEPT
                     ![current_subscription].credits_used = 0,
                     ![current_subscription].credit_limit = p_new_credit_limit,
                     ![current_subscription].billing_period_end = p_billing_end]
             /\ users_credit_ledger' =
                  Append(users_credit_ledger,
                         [user_id |-> p_user_id, transaction_type |-> "grant",
                          credit_source |-> "subscription", amount |-> p_new_credit_limit,
                          balance_after |->
                              get_user_credit_balance(users_credit_ledger, p_user_id)
                              + p_new_credit_limit,
                          xid |-> 0])

\* One turn of the job's loop: the rpc for the next selected subscription,
\* whose error is logged; after the last one the job ends.
ResetRpc(p) ==
    /\ inv[p].op = "handleMonthlyCreditReset" /\ inv[p].pc = "rpc"
    /\ LET subscription == Head(inv[p].expiredBillingPeriods)
           newPeriodStart == subscription.billing_period_end + 1
           newPeriodEnd == newPeriodStart + DaysInMonth
       IN  \/ /\ reset_subscription_credits(subscription.user_id, subscription.credit_limit,
                                            newPeriodEnd)
              /\ ret' = [fn |-> "reset_subscription_credits", subscription |-> subscription.id,
                         result |-> "reset"]
           \/ /\ UNCHANGED <<user_subscriptions, users_credit_ledger>>
              /\ ret' = [fn |-> "reset_subscription_credits", subscription |-> subscription.id,
                         result |-> "error"]
    /\ inv' = [inv EXCEPT ![p] =
                 IF Len(inv[p].expiredBillingPeriods) = 1 THEN ResetIdle
                 ELSE [inv[p] EXCEPT !.expiredBillingPeriods = Tail(@)]]
    /\ ResetFrame

ResetNext ==
    \/ Tick
    \/ \E p \in Procs :
        \/ ResetFetch(p)
        \/ ResetRpc(p)

SpecReset == ResetInit /\ [][ResetNext]_vars

\* C36: the job changes only annual subscriptions whose billing_period_end
\* has passed, and a subscription it selected and whose rpc reported no
\* error has credits_used 0 and a later billing_period_end.
ResetsExactlyDueAnnualRows ==
    [][/\ \A i \in 1..Len(user_subscriptions) :
            user_subscriptions'[i] # user_subscriptions[i] => i \in ExpiredBillingPeriodIds
       /\ (ret' # Null /\ ret'.result = "reset" /\ inv' # inv)
          => /\ user_subscriptions'[ret'.subscription].credits_used = 0
             /\ user_subscriptions'[ret'.subscription].billing_period_end > now]_vars


(***************************************************************************)
(* handle_new_user_referral: the trigger on the registration of a user     *)
(***************************************************************************)
v_inviter_bonus == 5

v_invitee_bonus == 5

YEARLY_CAP == 10

DaysInYear == 365

\* The users that register, by id; the e-mail address of user n is n.
NewUsers == 1..MaxSignups

\* The user who sent the invitations.
Inviter == MaxSignups + 1

\* encode(digest(lower(trim(NEW.email)), 'sha256'), 'hex')
v_email_hash(email) == [sha256 |-> email]

\* An invitation the inviter's referral was rewarded for on a day.
RewardedInvite(day) ==
    [inviter_user_id |-> Inviter, invitee_email_hash |-> v_email_hash(0),
     status |-> "reward_granted", reward_granted_at |-> day, invitee_user_id |-> 0]

\* An invitation waiting for the registration of its e-mail address.
PendingInvite(email) ==
    [inviter_user_id |-> Inviter, invitee_email_hash |-> v_email_hash(email),
     status |-> "invited", reward_granted_at |-> NULL, invitee_user_id |-> NULL]

RECURSIVE PendingInvites(_)
PendingInvites(S) ==
    IF S = {} THEN <<>>
    ELSE LET e == CHOOSE x \in S : \A y \in S : x <= y
         IN  <<PendingInvite(e)>> \o PendingInvites(S \ {e})

\* The invitations before the first registration: n rewarded today, some
\* rewarded more than a year ago, and the pending ones.
ReferralInvites(n, old, pending) ==
    [i \in 1..n |-> RewardedInvite(0)]
    \o [i \in 1..old |-> RewardedInvite(0 - DaysInYear - 1)]
    \o PendingInvites(pending)

ReferralInit ==
    /\ now = 0
    /\ faxes = [f \in FaxIds |-> Null]
    /\ usage = <<>>
    /\ user_subscriptions = <<>>
    /\ free_credits = <<>>
    /\ webhook_events = 0
    /\ unlogged = 0
    /\ creditsAdded = [f \in FaxIds |-> 0]
    /\ inv = [p \in Procs |-> Idle]
    /\ response = NoResponse
    /\ args = Null
    /\ ret = Null
    /\ users_credit_ledger = <<>>
    /\ LOOKUP_KV = <<>>
    /\ cache = <<>>
    /\ fetches = <<>>
    /\ rewarded_video_completions = <<>>
    /\ \E n \in {0, YEARLY_CAP - 2, YEARLY_CAP - 1, YEARLY_CAP}, old \in 0..1,
          pending \in SUBSET NewUsers :
         referral_invites = ReferralInvites(n, old, pending)
    /\ profiles = <<>>

ReferralFrame ==
    UNCHANGED <<faxes, usage, user_subscriptions, free_credits, webhook_events, unlogged,
                creditsAdded, inv, response, args, LOOKUP_KV, cache, fetches,
                rewarded_video_completions>>

\* The clock of the referral trigger.
ReferralTick ==
    /\ now < MaxNow
    /\ now' = now + 1
    /\ UNCHANGED <<ret, users_credit_ledger, referral_invites, profiles>>
    /\ ReferralFrame

\* The inviter's invitations with status reward_granted and
\* reward_granted_at > NOW() - INTERVAL '1 year'.
RewardedInYear(invites, inviter) ==
    {i \in 1..Len(invites) :
        /\ invites[i].inviter_user_id = inviter
        /\ invites[i].status = "reward_granted"
        /\ invites[i].reward_granted_at > now - DaysInYear}

\* grant_credits(p_user_id, p_amount, 'referral', invite): the ledger entry.
ReferralGrant(ledger, p_user_id, p_amount, invite) ==
    Append(ledger,
           [user_id |-> p_user_id, transaction_type |-> "grant",
            credit_source |-> "referral", amount |-> p_amount,
            balance_after |-> get_user_credit_balance(ledger, p_user_id) + p_amount,
            xid |-> 0, reference_id |-> invite])

\* The registration of a user and the trigger it fires, in one transaction.
handle_new_user_referral(new_user) ==
    /\ \A i \in 1..Len(profiles) : profiles[i].id # new_user
    /\ profiles' = Append(profiles, [id |-> new_user, scheduled_deletion_at |-> NULL,
                                     is_anonymized |-> FALSE])
    /\ LET found == {i \in 1..Len(referral_invites) :
                        /\ referral_invites[i].invitee_email_hash = v_email_hash(new_user)
                        /\ referral_invites[i].status = "invited"}
       IN  IF found = {}
           THEN /\ ret' = [fn |-> "handle_new_user_referral", new_user |-> new_user, invite |-> 0]
                /\ UNCHANGED <<referral_invites, users_credit_ledger>>
           ELSE LET v_invite_record == CHOOSE i \in found : \A j \in found : i <= j
                    updated == [referral_invites EXCEPT
                                  ![v_invite_record].invitee_user_id = new_user,
                                  ![v_invite_record].status = "reward_granted",
                                  ![v_invite_record].reward_granted_at = now]
                    inviter == referral_invites[v_invite_record].inviter_user_id
                    v_inviter_yearly_count == Cardinality(RewardedInYear(updated, inviter))
                    granted == IF v_inviter_yearly_count < YEARLY_CAP
                               THEN ReferralGrant(users_credit_ledger, inviter,
                                                  v_inviter_bonus, v_invite_record)
                               ELSE users_credit_ledger
                IN  /\ referral_invites' = updated
                    /\ users_credit_ledger' =
                         ReferralGrant(granted, new_user, v_invitee_bonus, v_invite_record)
                    /\ ret' = [fn |-> "handle_new_user_referral", new_user |-> new_user,
                               invite |-> v_invite_record]
    /\ UNCHANGED now
    /\ ReferralFrame

ReferralNext ==
    \/ ReferralTick
    \/ \E new_user \in NewUsers : handle_new_user_referral(new_user)

SpecReferral == ReferralInit /\ [][ReferralNext]_vars

\* The entries the step adds to the ledger.
NewLedgerEntries ==
    {users_credit_ledger'[k] : k \in Len(users_credit_ledger) + 1..Len(users_credit_ledger')}

\* C33: when a referred user registers, the inviter is granted the bonus
\* exactly when fewer than YEARLY_CAP of the inviter's referrals were
\* rewarded in the year before, and the invitee is always granted the bonus.
InviterRewardedUnderYearlyCap ==
    [][(Len(profiles') > Len(profiles) /\ ret'.invite # 0)
       => LET inviter == referral_invites[ret'.invite].inviter_user_id
          IN  /\ (\E e \in NewLedgerEntries :
                     e.user_id = inviter /\ e.amount = v_inviter_bonus)
                 <=> Cardinality(RewardedInYear(referral_invites, inviter)) < YEARLY_CAP
              /\ \E e \in NewLedgerEntries :
                     e.user_id = ret'.new_user /\ e.amount = v_invitee_bonus]_vars


(***************************************************************************)
(* Account deletion: scheduling, cancelling and the anonymization cron job *)
(***************************************************************************)
GracePeriodDays == 7

ProfileIds == 1..MaxProfiles

\* The profiles before the first call: none anonymized, each with no
\* deletion scheduled or one scheduled for day 0 or day 1.
ProfileTables ==
    {[i \in ProfileIds |-> [id |-> i, scheduled_deletion_at |-> schedule[i],
                            is_anonymized |-> FALSE]] :
        schedule \in [ProfileIds -> {NULL, 0, 1}]}

DeletionIdle == [op |-> "idle", pc |-> "done", usersToAnonymize |-> <<>>]

DeletionInit ==
    /\ now = 0
    /\ faxes = [f \in FaxIds |-> Null]
    /\ usage = <<>>
    /\ user_subscriptions = <<>>
    /\ free_credits = <<>>
    /\ webhook_events = 0
    /\ unlogged = 0
    /\ creditsAdded = [f \in FaxIds |-> 0]
    /\ inv = [p \in Procs |-> DeletionIdle]
    /\ response = NoResponse
    /\ args = Null
    /\ ret = Null
    /\ users_credit_ledger = <<>>
    /\ LOOKUP_KV = <<>>
    /\ cache = <<>>
    /\ fetches = <<>>
    /\ rewarded_video_completions = <<>>
    /\ referral_invites = <<>>
    /\ profiles \in ProfileTables

DeletionFrame ==
    UNCHANGED <<faxes, usage, user_subscriptions, free_credits, webhook_events, unlogged,
                creditsAdded, response, args, users_credit_ledger, LOOKUP_KV, cache,
                fetches, rewarded_video_completions, referral_invites>>

DeletionTick ==
    /\ now < MaxNow
    /\ now' = now + 1
    /\ UNCHANGED <<inv, ret, profiles>>
    /\ DeletionFrame

\* What a deletion function returns.
DeletionResult(fn, p_user_id, success, message) ==
    [fn |-> fn, p_user_id |-> p_user_id, success |-> success, message |-> message]

\* schedule_user_deletion(p_user_id)
schedule_user_deletion(p_user_id) ==
    /\ LET fn == "schedule_user_deletion"
           v_existing_schedule == profiles[p_user_id].scheduled_deletion_at
       IN  IF profiles[p_user_id].is_anonymized
           THEN /\ ret' = DeletionResult(fn, p_user_id, FALSE, "User is already anonymized")
                /\ UNCHANGED profiles
           ELSE IF v_existing_schedule # NULL
           THEN /\ ret' = DeletionResult(fn, p_user_id, TRUE, "Deletion already scheduled")
                /\ UNCHANGED profiles
           ELSE /\ profiles' = [profiles EXCEPT
                                  ![p_user_id].scheduled_deletion_at = now + GracePeriodDays]
                /\ ret' = DeletionResult(fn, p_user_id, TRUE, "Deletion scheduled successfully")
    /\ UNCHANGED <<now, inv>>
    /\ DeletionFrame

\* cancel_user_deletion(p_user_id)
cancel_user_deletion(p_user_id) ==
    /\ LET fn == "cancel_user_deletion"
       IN  IF profiles[p_user_id].is_anonymized
           THEN /\ ret' = DeletionResult(fn, p_user_id, FALSE,
                                         "User is already anonymized and cannot be restored")
                /\ UNCHANGED profiles
           ELSE IF profiles[p_user_id].scheduled_deletion_at = NULL
           THEN /\ ret' = DeletionResult(fn, p_user_id, FALSE, "No scheduled deletion to cancel")
                /\ UNCHANGED profiles
           ELSE /\ profiles' = [profiles EXCEPT ![p_user_id].scheduled_deletion_at = NULL]
                /\ ret' = DeletionResult(fn, p_user_id, TRUE,
                                         "Scheduled deletion cancelled successfully")
    /\ UNCHANGED <<now, inv>>
    /\ DeletionFrame

\* The profiles the job's select returns: is_anonymized false and
\* scheduled_deletion_at not null and <= now.
UsersToAnonymize ==
    {i \in ProfileIds :
        /\ ~profiles[i].is_anonymized
        /\ profiles[i].scheduled_deletion_at # NULL
        /\ profiles[i].scheduled_deletion_at <= now}

RECURSIVE InIdOrder(_)
InIdOrder(S) ==
    IF S = {} THEN <<>>
    ELSE LET i == CHOOSE k \in S : \A j \in S : k <= j IN <<i>> \o InIdOrder(S \ {i})

\* handleUserAnonymization up to the answer of its select; with no row, or
\* with a failed select, the job returns.
AnonymizationFetch(p) ==
    /\ inv[p].op = "idle"
    /\ \A q \in Procs : q < p => inv[q].op # "idle"
    /\ \/ /\ UsersToAnonymize # {}
          /\ inv' = [inv EXCEPT ![p] = [op |-> "handleUserAnonymization", pc |-> "rpc",
                                        usersToAnonymize |-> InIdOrder(UsersToAnonymize)]]
          /\ UNCHANGED ret
       \/ /\ ret' = DeletionResult("handleUserAnonymization", 0, UsersToAnonymize = {},
                                   "No users to anonymize")
          /\ UNCHANGED inv
    /\ UNCHANGED <<now, profiles>>
    /\ DeletionFrame

\* anonymize_user(p_user_id): it reads is_anonymized and
\* scheduled_deletion_at and tests the first only.
anonymize_user(p_user_id) ==
    LET fn == "anonymize_user"
        v_is_anonymized == profiles[p_user_id].is_anonymized
        v_scheduled_at == profiles[p_user_id].scheduled_deletion_at
    IN  IF v_is_anonymized
        THEN /\ ret' = DeletionResult(fn, p_user_id, FALSE, "User is already anonymized")
             /\ UNCHANGED profiles
        ELSE /\ profiles' = [profiles EXCEPT ![p_user_id].is_anonymized = TRUE,
                                             ![p_user_id].scheduled_deletion_at = NULL]
             /\ ret' = DeletionResult(fn, p_user_id, TRUE, "User anonymized successfully")

\* One turn of the job's loop: the rpc for the next selected user, whose
\* error is logged; after the last one the job ends.
AnonymizationRpc(p) ==
    /\ inv[p].op = "handleUserAnonymization" /\ inv[p].pc = "rpc"
    /\ LET user == Head(inv[p].usersToAnonymize)
       IN  \/ anonymize_user(user)
           \/ /\ ret' = DeletionResult("anonymize_user", user, FALSE, "anonymizeError")
              /\ UNCHANGED profiles
    /\ inv' = [inv EXCEPT ![p] =
                 IF Len(inv[p].usersToAnonymize) = 1 THEN DeletionIdle
                 ELSE [inv[p] EXCEPT !.usersToAnonymize = Tail(@)]]
    /\ UNCHANGED now
    /\ DeletionFrame

DeletionNext ==
    \/ DeletionTick
    \/ \E u \in ProfileIds :
        \/ schedule_user_deletion(u)
        \/ cancel_user_deletion(u)
    \/ \E p \in Procs :
        \/ AnonymizationFetch(p)
        \/ AnonymizationRpc(p)

SpecDeletion == DeletionInit /\ [][DeletionNext]_vars

\* C37: a user is anonymized only while a deletion is scheduled: after a
\* successful cancel_user_deletion, and until schedule_user_deletion is
\* called again, no step of the cron job anonymizes the user.
CancelledUserNotAnonymized ==
    [][\A u \in ProfileIds :
         (~profiles[u].is_anonymized /\ profiles'[u].is_anonymized)
         => profiles[u].scheduled_deletion_at # NULL]_vars

====
